---- MODULE Spec2Model ----
(***************************************************************************)
(* A model of the gene-set exporters: export_genesets_xml.py (XML source)  *)
(* and export_gene_sets.py (SQLite source).                                *)
(*                                                                         *)
(* Python values are modelled as follows.                                  *)
(*   str            a sequence of one-character strings; characters that   *)
(*                  TLA+ cannot spell are spelled as Python escapes        *)
(*                  ("\\x01" is U+0001, "\\ufffd" is U+FFFD)               *)
(*   Optional[str]  None is {}, a present string s is {s}                  *)
(*   list           a sequence                                             *)
(*   dict           a function from keys to values                         *)
(* Standard names are natural numbers that stand for strings in their      *)
(* lexicographic order, so that sorted() is ascending numeric order.       *)
(***************************************************************************)
EXTENDS Integers, Sequences, FiniteSets, TLC

VARIABLES
    m_kind,      \* which exporter builds the document: "xml" | "sqlite" | "idle"
    m_input,     \* the entity's raw member data (MEMBERS_MAPPING / joined rows)
    m_doc,       \* the document handed to yaml.dump: {} before, {doc} after
    c_kind,      \* which relationship index is in use: "xml" | "sqlite" | "idle"
    c_xml,       \* XMLDataCache: all_gene_sets, gene_sets_by_pmid, gene_sets_by_author
    c_db,        \* the SQLite tables the relationship queries read: {} or {db}
    c_sql,       \* DataCache after preload_all: {} before, {cache} after
    c_related,   \* the related lists computed for one entity: {} or {record}
    s_raw,       \* the bytes of the XML file given to create_sanitized_xml_copy
    s_runs,      \* the results of the sanitizer runs made so far (0, 1 or 2)
    p_in,        \* the arguments and the corpus of a process_species run
    p_run,       \* where the run is: position, counters, what it did so far
    p_fs,        \* the files: the source, the sanitized copy, the output directory
    p_main       \* where main() is and what its process_species calls returned

vars == <<m_kind, m_input, m_doc, c_kind, c_xml, c_db, c_sql, c_related, s_raw, s_runs,
          p_in, p_run, p_fs, p_main>>

-----------------------------------------------------------------------------
(* Bounds of the model.                                                    *)

MaxMapLen == 5      \* longest generated MEMBERS_MAPPING string
MaxRows == 2        \* most member rows of one SQLite gene set
MaxSets == 3        \* most gene sets of one corpus
MaxAtoms == 3       \* most generated atoms after an XML input's prefix

-----------------------------------------------------------------------------
(* Python built-ins on characters and strings.                             *)

None == {}
Some(v) == {v}

Digits == <<"0", "1", "2", "3", "4", "5", "6", "7", "8", "9">>
Uppers == <<"A", "B", "C", "D", "E", "F", "G", "H", "I", "J", "K", "L", "M",
            "N", "O", "P", "Q", "R", "S", "T", "U", "V", "W", "X", "Y", "Z">>
Lowers == <<"a", "b", "c", "d", "e", "f", "g", "h", "i", "j", "k", "l", "m",
            "n", "o", "p", "q", "r", "s", "t", "u", "v", "w", "x", "y", "z">>

Range(f) == {f[k] : k \in DOMAIN f}

IndexOf(seq, c) == CHOOSE k \in 1..Len(seq) : seq[k] = c

Min(a, b) == IF a < b THEN a ELSE b

\* the code point of a character the model uses
CodePoint(c) ==
    IF c \in Range(Digits) THEN 47 + IndexOf(Digits, c)
    ELSE IF c \in Range(Uppers) THEN 64 + IndexOf(Uppers, c)
    ELSE IF c \in Range(Lowers) THEN 96 + IndexOf(Lowers, c)
    ELSE CASE c = "\\x01" -> 1
           [] c = "\t" -> 9
           [] c = "\n" -> 10
           [] c = " " -> 32
           [] c = "\"" -> 34
           [] c = "#" -> 35
           [] c = "&" -> 38
           [] c = "," -> 44
           [] c = "/" -> 47
           [] c = ":" -> 58
           [] c = ";" -> 59
           [] c = "<" -> 60
           [] c = "=" -> 61
           [] c = ">" -> 62
           [] c = "_" -> 95
           [] c = "|" -> 124
           [] c = "\\ufffd" -> 65533

\* the characters the model uses
Characters ==
    Range(Digits) \cup Range(Uppers) \cup Range(Lowers)
        \cup {"\\x01", "\t", "\n", " ", "\"", "#", "&", ",", "/", ":", ";", "<", "=", ">",
              "_", "|", "\\ufffd"}

\* ord(char), from a table of the code points that is computed once
CodePoints == [c \in Characters |-> CodePoint(c)]
ord(c) == CodePoints[c]

IsDigitChar(c) == 48 <= ord(c) /\ ord(c) <= 57
IsUpperChar(c) == 65 <= ord(c) /\ ord(c) <= 90
IsLowerChar(c) == 97 <= ord(c) /\ ord(c) <= 122
IsSpaceChar(c) == ord(c) \in {9, 10, 13, 32}

\* str.isdigit(): non-empty and every character a digit
isdigit(s) == s # <<>> /\ \A k \in 1..Len(s) : IsDigitChar(s[k])

\* str.isalnum(): non-empty and every character a letter or a digit
isalnum(s) ==
    s # <<>> /\ \A k \in 1..Len(s) :
        IsDigitChar(s[k]) \/ IsUpperChar(s[k]) \/ IsLowerChar(s[k])

\* str.isupper() of a one-character string
isupper(c) == IsUpperChar(c)

\* s[a:b] with Python's clamping, 0-based, b exclusive
Slice(s, a, b) == SubSeq(s, a + 1, Min(b, Len(s)))

\* s.startswith(p)
startswith(s, p) == Len(s) >= Len(p) /\ SubSeq(s, 1, Len(p)) = p

\* s.split(sep) for a one-character separator: always at least one part
RECURSIVE Split(_, _)
Split(s, sep) ==
    IF \A k \in 1..Len(s) : s[k] # sep
    THEN <<s>>
    ELSE LET k == CHOOSE j \in 1..Len(s) :
                      s[j] = sep /\ \A h \in 1..(j - 1) : s[h] # sep
         IN  <<SubSeq(s, 1, k - 1)>> \o Split(SubSeq(s, k + 1, Len(s)), sep)

\* s.strip(): leading and trailing whitespace removed
RECURSIVE Strip(_)
Strip(s) ==
    IF s = <<>> THEN s
    ELSE IF IsSpaceChar(s[1]) THEN Strip(Tail(s))
    ELSE IF IsSpaceChar(s[Len(s)]) THEN Strip(SubSeq(s, 1, Len(s) - 1))
    ELSE s

\* ''.join(pieces)
RECURSIVE Join(_)
Join(pieces) == IF pieces = <<>> THEN <<>> ELSE Head(pieces) \o Join(Tail(pieces))

\* every sequence over S of length at most n
SeqsUpTo(S, n) == UNION {[1..k -> S] : k \in 0..n}

\* sorted(list) of standard names, and the list of a set in ascending order
RECURSIVE SortedSeqOf(_)
SortedSeqOf(S) ==
    IF S = {} THEN <<>>
    ELSE LET lo == CHOOSE x \in S : \A y \in S : x <= y
         IN  <<lo>> \o SortedSeqOf(S \ {lo})

RECURSIVE Insert(_, _)
Insert(sorted, x) ==
    IF sorted = <<>> THEN <<x>>
    ELSE IF x < Head(sorted) THEN <<x>> \o sorted
    ELSE <<Head(sorted)>> \o Insert(Tail(sorted), x)

RECURSIVE sorted(_)
sorted(list) == IF list = <<>> THEN <<>> ELSE Insert(sorted(Tail(list)), Head(list))

-----------------------------------------------------------------------------
(* Member lists: parse_members_mapping (XML) and get_gene_members (SQLite). *)

\* the members of one '|'-separated entry of MEMBERS_MAPPING (none or one)
MemberOfEntry(entry) ==
    LET parts == Split(entry, ",")
    IN  IF Len(parts) >= 3
        THEN <<[source_id |-> parts[1],
                gene_symbol |-> Some(parts[2]),
                ncbi_gene_id |-> IF isdigit(parts[3]) THEN Some(parts[3]) ELSE None]>>
        ELSE IF Len(parts) = 2
        THEN <<[source_id |-> parts[1],
                gene_symbol |-> Some(parts[2]),
                ncbi_gene_id |-> None]>>
        ELSE IF Len(parts) = 1 /\ parts[1] # <<>>
        THEN <<[source_id |-> parts[1],
                gene_symbol |-> None,
                ncbi_gene_id |-> None]>>
        ELSE <<>>

RECURSIVE MembersOfEntries(_)
MembersOfEntries(entries) ==
    IF entries = <<>> THEN <<>>
    ELSE MemberOfEntry(Head(entries)) \o MembersOfEntries(Tail(entries))

parse_members_mapping(mapping_str) ==
    IF mapping_str = <<>> THEN <<>>
    ELSE MembersOfEntries(Split(mapping_str, "|"))

\* rows: what the member query returns; query_fails: the query raises
get_gene_members(input) ==
    IF input.query_fails THEN <<>>
    ELSE [k \in 1..Len(input.rows) |->
            [source_id |-> input.rows[k].source_id,
             gene_symbol |-> input.rows[k].symbol,
             ncbi_gene_id |-> input.rows[k].NCBI_id]]

-----------------------------------------------------------------------------
(* The member part of the document built by export_gene_set_to_yaml.       *)

CountMappedBoth(members) ==
    Cardinality({k \in 1..Len(members) :
        members[k].gene_symbol # None /\ members[k].ncbi_gene_id # None})

NumMembersMappedOnly(members) == CountMappedBoth(members)

\* gene_set_data['num_members'] = len(members)
NumMembers(members) == Len(members)

\* mapped_count = sum(1 for m in members if m['gene_symbol'] is not None)
MappedCount(members) ==
    Cardinality({k \in 1..Len(members) : members[k].gene_symbol # None})

MemberFields(members) ==
    [members |-> members,
     num_members |-> NumMembers(members),
     num_genes_mapped |-> MappedCount(members)]

keys_to_always_keep == {"full_description", "tags"}

\* "v is not None and v != [] and v != {}" for the value of key k
IsEmptyValue(k, v) ==
    CASE k = "members" -> v = <<>>
      [] k \in {"num_members", "num_genes_mapped"} -> FALSE

\* the dict comprehension that drops empty top-level values (XML exporter)
CleanUp(data) ==
    LET kept == {k \in DOMAIN data :
                    k \in keys_to_always_keep \/ ~IsEmptyValue(k, data[k])}
    IN  [k \in kept |-> data[k]]

XmlMemberDoc(mapping_str) == CleanUp(MemberFields(parse_members_mapping(mapping_str)))

SqliteMemberDoc(input) == MemberFields(get_gene_members(input))

-----------------------------------------------------------------------------
(* Inputs of the member specification.                                     *)

MappingAlphabet == {"1", "T", ",", "|"}

\* "1234,TP53,7157|5678,,"
ExampleMapping ==
    <<"1", "2", "3", "4", ",", "T", "P", "5", "3", ",", "7", "1", "5", "7", "|",
      "5", "6", "7", "8", ",", ",">>

MappingStrings == SeqsUpTo(MappingAlphabet, MaxMapLen) \cup {ExampleMapping}

MemberRows ==
    [source_id : {<<"1">>, <<"2">>},
     symbol : {None, Some(<<"T">>)},
     NCBI_id : {None, Some(<<"7">>)}]

\* ORDER BY sm.source_id
RowsOrdered(rows) ==
    \A k \in 1..(Len(rows) - 1) :
        ord(rows[k].source_id[1]) <= ord(rows[k + 1].source_id[1])

MemberQueries ==
    [rows : {r \in SeqsUpTo(MemberRows, MaxRows) : RowsOrdered(r)},
     query_fails : BOOLEAN]

IdleCache ==
    /\ c_kind = "idle"
    /\ c_xml = [all_gene_sets |-> <<>>, gene_sets_by_pmid |-> <<>>, gene_sets_by_author |-> <<>>]
    /\ c_db = {}
    /\ c_sql = {}
    /\ c_related = {}

IdleSanitizer ==
    /\ s_raw = <<>>
    /\ s_runs = <<>>

IdleMembers ==
    /\ m_kind = "idle"
    /\ m_input = <<>>
    /\ m_doc = {}

IdleRun ==
    /\ p_in = {}
    /\ p_run = {}
    /\ p_fs = {}
    /\ p_main = {}

InitMembers ==
    /\ \/ m_kind = "xml" /\ m_input \in MappingStrings
       \/ m_kind = "sqlite" /\ m_input \in MemberQueries
    /\ m_doc = {}
    /\ IdleCache
    /\ IdleSanitizer
    /\ IdleRun

\* export_gene_set_to_yaml (XML): members, counters, clean-up, dump
ExportXmlMembers ==
    /\ m_kind = "xml"
    /\ m_doc = {}
    /\ m_doc' = {XmlMemberDoc(m_input)}
    /\ UNCHANGED <<m_kind, m_input, c_kind, c_xml, c_db, c_sql, c_related, s_raw, s_runs, p_in, p_run, p_fs, p_main>>

\* export_gene_set_to_yaml (SQLite): members, counters, dump
ExportSqliteMembers ==
    /\ m_kind = "sqlite"
    /\ m_doc = {}
    /\ m_doc' = {SqliteMemberDoc(m_input)}
    /\ UNCHANGED <<m_kind, m_input, c_kind, c_xml, c_db, c_sql, c_related, s_raw, s_runs, p_in, p_run, p_fs, p_main>>

NextMembers == ExportXmlMembers \/ ExportSqliteMembers

SpecMembers == InitMembers /\ [][NextMembers]_vars

\* the member list the exporter computed for the entity of the current run
ComputedMembers ==
    IF m_kind = "xml" THEN parse_members_mapping(m_input) ELSE get_gene_members(m_input)

\* C1: in every emitted document num_genes_mapped is the number of members
\* whose gene_symbol and ncbi_gene_id are both non-null.
C1_MappedCountsBothFields ==
    \A d \in m_doc : d.num_genes_mapped = CountMappedBoth(ComputedMembers)

\* C2: in every emitted document num_members is the length of the member list
\* computed for the entity (and of the emitted list, when it is emitted).
C2_NumMembersIsLength ==
    \A d \in m_doc :
        /\ d.num_members = Len(ComputedMembers)
        /\ "members" \in DOMAIN d => d.num_members = Len(d.members)

C2_Witness ==
    \E d \in m_doc :
        /\ "members" \in DOMAIN d
        /\ d.num_members = 2
        /\ CountMappedBoth(d.members) = 1

\* the n-th (1-based) ','-separated field of a record, None when empty or missing
FieldOrNull(record, n) ==
    LET parts == Split(record, ",")
    IN  IF Len(parts) >= n /\ parts[n] # <<>> THEN Some(parts[n]) ELSE None

NonEmptyRecords(mapping_str) ==
    LET IsRecord(e) == e # <<>>
    IN  SelectSeq(Split(mapping_str, "|"), IsRecord)

\* C3: parse_members_mapping gives one member per non-empty record, in order,
\* source_id the first field, gene_symbol / ncbi_gene_id null whenever the
\* second / third field is empty or missing; "1234,TP53,7157|5678,," gives
\* {1234, TP53, 7157} and {5678, null, null}, num_members 2, num_genes_mapped 1.
C3_ParseMembersMapping ==
    \A d \in m_doc :
        m_kind = "xml" =>
            LET members == parse_members_mapping(m_input)
                records == NonEmptyRecords(m_input)
            IN  /\ Len(members) = Len(records)
                /\ \A k \in 1..Len(members) :
                    /\ members[k].source_id = Split(records[k], ",")[1]
                    /\ FieldOrNull(records[k], 2) = None => members[k].gene_symbol = None
                    /\ FieldOrNull(records[k], 3) = None => members[k].ncbi_gene_id = None
                /\ m_input = ExampleMapping =>
                    /\ members =
                        <<[source_id |-> <<"1", "2", "3", "4">>,
                           gene_symbol |-> Some(<<"T", "P", "5", "3">>),
                           ncbi_gene_id |-> Some(<<"7", "1", "5", "7">>)],
                          [source_id |-> <<"5", "6", "7", "8">>,
                           gene_symbol |-> None,
                           ncbi_gene_id |-> None]>>
                    /\ d.num_members = 2
                    /\ d.num_genes_mapped = 1

-----------------------------------------------------------------------------
(* The relationship index of the XML exporter: XMLDataCache.               *)

\* dict.get(k, default) / defaultdict(list)[k], and d[k] = v
DictGet(d, k, default) == IF k \in DOMAIN d THEN d[k] ELSE default
DictPut(d, k, v) == [x \in DOMAIN d \cup {k} |-> IF x = k THEN v ELSE d[x]]

\* src/export_genesets_xml.py: EXCLUDED_FROM_RELATED_GENE_SETS = set()
EXCLUDED_FROM_RELATED_GENE_SETS == {}

\* src/export_gene_sets.py: every entry of the literal is commented out
EXCLUDED_FROM_RELATED_GENE_SETS_SQLITE == {}

\* XMLDataCache.__init__
EmptyXmlCache ==
    [all_gene_sets |-> <<>>, gene_sets_by_pmid |-> <<>>, gene_sets_by_author |-> <<>>]

\* the authors of an AUTHORS string: split on ',', stripped, non-empty
AuthorsOf(authors) ==
    {Strip(p) : p \in Range(Split(authors, ","))} \ {<<>>}

RECURSIVE IndexAuthorsNoStrip(_, _, _)
IndexAuthorsNoStrip(by_author, pieces, name) ==
    IF pieces = <<>> THEN by_author
    ELSE LET author == Head(pieces)
             next == IF author # <<>>
                     THEN DictPut(by_author, author,
                                  Append(DictGet(by_author, author, <<>>), name))
                     ELSE by_author
         IN  IndexAuthorsNoStrip(next, Tail(pieces), name)

\* the loop over authors.split(',') of add_gene_set
RECURSIVE IndexAuthors(_, _, _)
IndexAuthors(by_author, pieces, name) ==
    IF pieces = <<>> THEN by_author
    ELSE LET author == Strip(Head(pieces))
             next == IF author # <<>>
                     THEN DictPut(by_author, author,
                                  Append(DictGet(by_author, author, <<>>), name))
                     ELSE by_author
         IN  IndexAuthors(next, Tail(pieces), name)

add_gene_set_no_strip(cache, name, pmid, authors) ==
    [all_gene_sets |->
        DictPut(cache.all_gene_sets, name, [pmid |-> pmid, authors |-> authors]),
     gene_sets_by_pmid |->
        IF pmid # <<>>
        THEN DictPut(cache.gene_sets_by_pmid, pmid,
                     Append(DictGet(cache.gene_sets_by_pmid, pmid, <<>>), name))
        ELSE cache.gene_sets_by_pmid,
     gene_sets_by_author |->
        IF authors # <<>>
        THEN IndexAuthorsNoStrip(cache.gene_sets_by_author, Split(authors, ","), name)
        ELSE cache.gene_sets_by_author]

\* XMLDataCache.add_gene_set
add_gene_set(cache, name, pmid, authors) ==
    [all_gene_sets |->
        DictPut(cache.all_gene_sets, name, [pmid |-> pmid, authors |-> authors]),
     gene_sets_by_pmid |->
        IF pmid # <<>>
        THEN DictPut(cache.gene_sets_by_pmid, pmid,
                     Append(DictGet(cache.gene_sets_by_pmid, pmid, <<>>), name))
        ELSE cache.gene_sets_by_pmid,
     gene_sets_by_author |->
        IF authors # <<>>
        THEN IndexAuthors(cache.gene_sets_by_author, Split(authors, ","), name)
        ELSE cache.gene_sets_by_author]

XmlRelatedByPublicationKeepSelf(cache, name) ==
    IF name \notin DOMAIN cache.all_gene_sets \/ cache.all_gene_sets[name].pmid = <<>>
    THEN <<>>
    ELSE sorted(DictGet(cache.gene_sets_by_pmid, cache.all_gene_sets[name].pmid, <<>>))

XmlRelatedByPublicationLaterOnly(cache, name) ==
    IF name \notin DOMAIN cache.all_gene_sets \/ cache.all_gene_sets[name].pmid = <<>>
    THEN <<>>
    ELSE LET Keep(gs) == gs > name /\ gs \notin EXCLUDED_FROM_RELATED_GENE_SETS
         IN  sorted(SelectSeq(
                DictGet(cache.gene_sets_by_pmid, cache.all_gene_sets[name].pmid, <<>>),
                Keep))

\* XMLDataCache.get_related_by_publication
XmlRelatedByPublication(cache, name) ==
    IF name \notin DOMAIN cache.all_gene_sets \/ cache.all_gene_sets[name].pmid = <<>>
    THEN <<>>
    ELSE LET Keep(gs) == gs # name /\ gs \notin EXCLUDED_FROM_RELATED_GENE_SETS
         IN  sorted(SelectSeq(
                DictGet(cache.gene_sets_by_pmid, cache.all_gene_sets[name].pmid, <<>>),
                Keep))

XmlRelatedByAuthorsAnyPublication(cache, name) ==
    IF name \notin DOMAIN cache.all_gene_sets \/ cache.all_gene_sets[name].authors = <<>>
    THEN <<>>
    ELSE LET info == cache.all_gene_sets[name]
             related ==
                {gs_name \in UNION {Range(DictGet(cache.gene_sets_by_author, author, <<>>)) :
                                        author \in AuthorsOf(info.authors)} :
                    /\ gs_name # name
                    /\ gs_name \in DOMAIN cache.all_gene_sets}
         IN  SortedSeqOf(related)

\* XMLDataCache.get_related_by_authors
XmlRelatedByAuthors(cache, name) ==
    IF name \notin DOMAIN cache.all_gene_sets \/ cache.all_gene_sets[name].authors = <<>>
    THEN <<>>
    ELSE LET info == cache.all_gene_sets[name]
             current_pmid == info.pmid
             related ==
                {gs_name \in UNION {Range(DictGet(cache.gene_sets_by_author, author, <<>>)) :
                                        author \in AuthorsOf(info.authors)} :
                    /\ gs_name # name
                    /\ gs_name \in DOMAIN cache.all_gene_sets
                    /\ cache.all_gene_sets[gs_name].pmid # current_pmid}
         IN  SortedSeqOf(related)

\* the "related gene sets" block of export_gene_set_to_yaml (XML)
XmlRelatedBlock(cache, name) ==
    [name |-> name,
     pub_key |-> IF cache.all_gene_sets[name].pmid = <<>>
                 THEN None ELSE Some(cache.all_gene_sets[name].pmid),
     from_same_publication |-> XmlRelatedByPublication(cache, name),
     from_same_authors |-> XmlRelatedByAuthors(cache, name)]

-----------------------------------------------------------------------------
(* The relationship index of the SQLite exporter: DataCache.               *)
(* A database is [gene_set: id -> standard_name, publication_id: id ->     *)
(* Optional publication id (gene_set_details), publication: the ids of the *)
(* publication table, publication_author: rows (publication_id, author_id)]*)

TheValue(opt) == CHOOSE v \in opt : TRUE

\* a set of rows with distinct names as a list, ORDER BY standard_name
RECURSIVE OrderByName(_)
OrderByName(rows) ==
    IF rows = {} THEN <<>>
    ELSE LET first == CHOOSE r \in rows : \A q \in rows : r.name <= q.name
         IN  <<first>> \o OrderByName(rows \ {first})

\* DataCache._preload_publication_relationships
PreloadPublicationRelationships(db) ==
    LET used == {TheValue(db.publication_id[i]) :
                    i \in {j \in DOMAIN db.gene_set : db.publication_id[j] # None}}
    IN  [p \in used |->
            OrderByName({[id |-> i, name |-> db.gene_set[i]] :
                i \in {j \in DOMAIN db.gene_set : db.publication_id[j] = Some(p)}})]

\* DataCache._preload_author_relationships
PreloadAuthorRelationships(db) ==
    LET joined == {[author_id |-> pa.author_id, id |-> i, name |-> db.gene_set[i],
                    pub_id |-> pa.publication_id] :
                        <<i, pa>> \in {x \in (DOMAIN db.gene_set) \X db.publication_author :
                            db.publication_id[x[1]] = Some(x[2].publication_id)}}
    IN  [a \in {r.author_id : r \in joined} |->
            OrderByName({[id |-> r.id, name |-> r.name, pub_id |-> r.pub_id] :
                r \in {q \in joined : q.author_id = a}})]

\* DataCache.preload_all: the caches the relationship queries read
preload_all(db) ==
    [publication_cache |-> db.publication,
     gene_sets_by_publication |-> PreloadPublicationRelationships(db),
     gene_sets_by_author |-> PreloadAuthorRelationships(db)]

NamesOf(rows) == [k \in 1..Len(rows) |-> rows[k].name]

\* DataCache.get_related_by_publication
SqlRelatedByPublication(cache, gene_set_id, publication_id) ==
    IF publication_id = None
       \/ TheValue(publication_id) \notin DOMAIN cache.gene_sets_by_publication
    THEN <<>>
    ELSE LET Keep(gs) == /\ gs.id # gene_set_id
                         /\ gs.name \notin EXCLUDED_FROM_RELATED_GENE_SETS_SQLITE
         IN  NamesOf(SelectSeq(
                cache.gene_sets_by_publication[TheValue(publication_id)], Keep))

\* DataCache.get_related_by_authors
SqlRelatedByAuthors(cache, db, gene_set_id, publication_id) ==
    IF publication_id = None \/ TheValue(publication_id) \notin cache.publication_cache
    THEN <<>>
    ELSE LET pub == TheValue(publication_id)
             author_ids == {pa.author_id :
                               pa \in {x \in db.publication_author : x.publication_id = pub}}
             related ==
                {gs.name : gs \in
                    {g \in UNION {Range(cache.gene_sets_by_author[a]) :
                                    a \in author_ids \cap DOMAIN cache.gene_sets_by_author} :
                        g.id # gene_set_id /\ g.pub_id # pub}}
         IN  IF author_ids = {} THEN <<>> ELSE SortedSeqOf(related)

\* the "related gene sets" block of export_gene_set_to_yaml (SQLite)
SqlRelatedBlock(cache, db, gene_set_id) ==
    [name |-> db.gene_set[gene_set_id],
     pub_key |-> db.publication_id[gene_set_id],
     from_same_publication |->
        SqlRelatedByPublication(cache, gene_set_id, db.publication_id[gene_set_id]),
     from_same_authors |->
        SqlRelatedByAuthors(cache, db, gene_set_id, db.publication_id[gene_set_id])]

-----------------------------------------------------------------------------
(* The relationship specification: build an index, then export entities.   *)

Names == 1..MaxSets
Pmids == {<<>>, <<"1">>, <<"2">>}
AuthorStrings == {<<>>, <<"a">>, <<"a", ",", " ", "b">>, <<",", "b", " ">>}

PubIds == {1, 2}
AuthorIds == {1, 2}

\* standard names are unique; they ascend or descend with the ids
NameTables(n) == {[i \in 1..n |-> i], [i \in 1..n |-> n + 1 - i]}

Databases ==
    UNION {
        [gene_set : NameTables(n),
         publication_id : [1..n -> {None} \cup {Some(p) : p \in PubIds}],
         publication : {PubIds, {1}},
         publication_author : SUBSET [publication_id : PubIds, author_id : AuthorIds]]
        : n \in 1..MaxSets}

InitIndex ==
    /\ \/ c_kind = "xml" /\ c_db = {}
       \/ c_kind = "sqlite" /\ c_db \in {Some(db) : db \in Databases}
    /\ c_xml = EmptyXmlCache
    /\ c_sql = {}
    /\ c_related = {}
    /\ IdleMembers
    /\ IdleSanitizer
    /\ IdleRun

\* first pass of process_species (XML): cache.add_gene_set for the next GENESET
AddGeneSet ==
    /\ c_kind = "xml"
    /\ c_related = {}
    /\ Cardinality(DOMAIN c_xml.all_gene_sets) < MaxSets
    /\ \E name \in Names \ DOMAIN c_xml.all_gene_sets, pmid \in Pmids,
          authors \in AuthorStrings :
            \* the file lists a name before or after all the names seen so far
            /\ \/ \A g \in DOMAIN c_xml.all_gene_sets : g < name
               \/ \A g \in DOMAIN c_xml.all_gene_sets : name < g
            /\ c_xml' = add_gene_set(c_xml, name, pmid, authors)
    /\ UNCHANGED <<c_kind, c_db, c_sql, c_related, m_kind, m_input, m_doc, s_raw, s_runs, p_in, p_run, p_fs, p_main>>

\* second pass of process_species (XML): the related lists of one entity
\* (each behaviour follows the export of one entity of the corpus)
ExportRelatedXml ==
    /\ c_kind = "xml"
    /\ c_related = {}
    /\ \E name \in DOMAIN c_xml.all_gene_sets :
            c_related' = {XmlRelatedBlock(c_xml, name)}
    /\ UNCHANGED <<c_kind, c_xml, c_db, c_sql, m_kind, m_input, m_doc, s_raw, s_runs, p_in, p_run, p_fs, p_main>>

\* process_species (SQLite): cache.preload_all()
PreloadAll ==
    /\ c_kind = "sqlite"
    /\ c_sql = {}
    /\ c_sql' = {preload_all(TheValue(c_db))}
    /\ UNCHANGED <<c_kind, c_xml, c_db, c_related, m_kind, m_input, m_doc, s_raw, s_runs, p_in, p_run, p_fs, p_main>>

\* process_species (SQLite): the related lists of one entity
ExportRelatedSqlite ==
    /\ c_kind = "sqlite"
    /\ c_sql # {}
    /\ c_related = {}
    /\ \E gene_set_id \in DOMAIN TheValue(c_db).gene_set :
            c_related' = {SqlRelatedBlock(TheValue(c_sql), TheValue(c_db), gene_set_id)}
    /\ UNCHANGED <<c_kind, c_xml, c_db, c_sql, m_kind, m_input, m_doc, s_raw, s_runs, p_in, p_run, p_fs, p_main>>

NextIndex == AddGeneSet \/ ExportRelatedXml \/ PreloadAll \/ ExportRelatedSqlite

SpecIndex == InitIndex /\ [][NextIndex]_vars

\* the entities of the corpus the index was built from (by standard name)
CorpusNames ==
    IF c_kind = "xml" THEN DOMAIN c_xml.all_gene_sets
    ELSE IF c_kind = "sqlite" THEN Range(TheValue(c_db).gene_set)
    ELSE {}

\* get_related_by_publication for the entity of the given name, current index
RelatedByPublicationOf(name) ==
    IF c_kind = "xml" THEN XmlRelatedByPublication(c_xml, name)
    ELSE LET db == TheValue(c_db)
             id == CHOOSE i \in DOMAIN db.gene_set : db.gene_set[i] = name
         IN  SqlRelatedByPublication(TheValue(c_sql), id, db.publication_id[id])

\* C4: the same-publication list of an entity never contains the entity's own
\* name and never contains an excluded name (both exporters).
C4_NoSelfNoExcluded ==
    \A r \in c_related :
        /\ r.name \notin Range(r.from_same_publication)
        /\ Range(r.from_same_publication) \cap
            (EXCLUDED_FROM_RELATED_GENE_SETS \cup EXCLUDED_FROM_RELATED_GENE_SETS_SQLITE) = {}

C4_Witness ==
    \E r \in c_related : c_kind = "xml" /\ Len(r.from_same_publication) = 2

\* C5: the same-authors list and the same-publication list of one entity have
\* no name in common (both exporters).
C5_RelatedListsDisjoint ==
    \A r \in c_related :
        Range(r.from_same_authors) \cap Range(r.from_same_publication) = {}

C5_Witness ==
    \E r \in c_related :
        r.from_same_authors # <<>> /\ r.from_same_publication # <<>>

\* C6: same-publication is symmetric: for distinct entities A and B, neither
\* excluded, B is in the list of A exactly when A is in the list of B.
C6_SamePublicationSymmetric ==
    \A r \in c_related :
        \A b \in CorpusNames \ {r.name} :
            b \in Range(r.from_same_publication)
                <=> r.name \in Range(RelatedByPublicationOf(b))

C6_Witness ==
    \E r \in c_related :
        \E b \in CorpusNames \ {r.name} :
            /\ b \in Range(r.from_same_publication)
            /\ r.name \in Range(RelatedByPublicationOf(b))
            /\ b < r.name

\* the gene sets that share an author with E and have another publication key
SharingAuthorsElsewhere(name) ==
    LET all == c_xml.all_gene_sets
    IN  {g \in DOMAIN all :
            /\ g # name
            /\ AuthorsOf(all[g].authors) \cap AuthorsOf(all[name].authors) # {}
            /\ all[g].pmid # all[name].pmid}

\* C7: XMLDataCache.get_related_by_authors(E) is exactly the gene sets G # E
\* that share a (comma-split, trimmed, non-empty) author with E and whose
\* publication key differs from E's, sorted ascending, no name repeated.
C7_RelatedByAuthorsExact ==
    \A r \in c_related :
        c_kind = "xml" =>
            /\ Range(r.from_same_authors) = SharingAuthorsElsewhere(r.name)
            /\ \A i, j \in 1..Len(r.from_same_authors) :
                    i < j => r.from_same_authors[i] < r.from_same_authors[j]

C7_Witness ==
    \E r \in c_related :
        /\ c_kind = "xml"
        /\ Len(r.from_same_authors) = 2
        /\ \E g \in DOMAIN c_xml.all_gene_sets :
                Len(c_xml.all_gene_sets[g].authors) > 1

\* C8: an entity with no publication key gets an empty same-publication list
\* and an empty same-authors list (both exporters).
C8_NoPublicationNoRelated ==
    \A r \in c_related :
        r.pub_key = None =>
            r.from_same_publication = <<>> /\ r.from_same_authors = <<>>

-----------------------------------------------------------------------------
(* The XML sanitizer: sanitize_xml_content and create_sanitized_xml_copy.  *)
(* A file is a sequence of items: a validly encoded character, or          *)
(* InvalidByte, a byte that is not part of any valid UTF-8 sequence.       *)

InvalidByte == "\\xff"
ReplacementChar == "\\ufffd"

\* raw_content.decode('utf-8', errors='replace')
decode(raw_content) ==
    [k \in 1..Len(raw_content) |->
        IF raw_content[k] = InvalidByte THEN ReplacementChar ELSE raw_content[k]]

\* f.write(sanitized) with encoding='utf-8': every character is encoded validly
encode(text) == [k \in 1..Len(text) |-> text[k]]

\* content.count(char)
count(content, char) == Cardinality({k \in 1..Len(content) : content[k] = char})

valid_xml_char(char) ==
    LET codepoint == ord(char)
    IN  \/ codepoint = 9
        \/ codepoint = 10
        \/ codepoint = 13
        \/ (32 <= codepoint /\ codepoint <= 55295)
        \/ (57344 <= codepoint /\ codepoint <= 65533)
        \/ (65536 <= codepoint /\ codepoint <= 1114111)

sanitize_xml_content(content) == SelectSeq(content, valid_xml_char)

GENESET_OPEN == <<"<", "G", "E", "N", "E", "S", "E", "T">>
LT_ENTITY == <<"&", "l", "t", ";">>
GT_ENTITY == <<"&", "g", "t", ";">>
AMP_ENTITY == <<"&", "a", "m", "p", ";">>
QUOT_ENTITY == <<"&", "q", "u", "o", "t", ";">>
APOS_ENTITY == <<"&", "a", "p", "o", "s", ";">>

IsHexChar(c) ==
    \/ IsDigitChar(c)
    \/ (65 <= ord(c) /\ ord(c) <= 70)
    \/ (97 <= ord(c) /\ ord(c) <= 102)

\* re.match(r'&#\d+;', remaining)
MatchesDecimalReference(remaining) ==
    /\ startswith(remaining, <<"&", "#">>)
    /\ \E k \in 4..Len(remaining) :
        /\ remaining[k] = ";"
        /\ \A h \in 3..(k - 1) : IsDigitChar(remaining[h])

\* re.match(r'&#x[0-9a-fA-F]+;', remaining)
MatchesHexReference(remaining) ==
    /\ startswith(remaining, <<"&", "#", "x">>)
    /\ \E k \in 5..Len(remaining) :
        /\ remaining[k] = ";"
        /\ \A h \in 4..(k - 1) : IsHexChar(remaining[h])

\* a variant that recognizes no entity, so that every '&' is escaped
RecognizesNoEntity(remaining) == FALSE

\* the test of lines 146-149 on remaining = sanitized[i:i+10]
IsEscapedEntity(remaining) ==
    \/ startswith(remaining, LT_ENTITY)
    \/ startswith(remaining, GT_ENTITY)
    \/ startswith(remaining, AMP_ENTITY)
    \/ startswith(remaining, QUOT_ENTITY)
    \/ startswith(remaining, APOS_ENTITY)
    \/ MatchesDecimalReference(remaining)
    \/ MatchesHexReference(remaining)

\* a variant without the "space then '/'" case
is_end_without_space_slash(remaining) ==
    \/ remaining = <<>>
    \/ (remaining[1] = " " /\ Len(remaining) > 1 /\ isupper(remaining[2]))
    \/ startswith(remaining, <<"/", ">">>)
    \/ startswith(remaining, <<">">>)

\* the test of lines 124-130 on remaining = sanitized[i+1:i+25]
is_end(remaining) ==
    \/ remaining = <<>>
    \/ (remaining[1] = " " /\ Len(remaining) > 1 /\ isupper(remaining[2]))
    \/ (remaining[1] = " " /\ Len(remaining) > 1 /\ remaining[2] = "/")
    \/ startswith(remaining, <<"/", ">">>)
    \/ startswith(remaining, <<">">>)

\* the look-back of lines 106-108 over the pieces of result; j counts pieces
\* (the code's j plus one), the result is where the loop stops
RECURSIVE LookBack(_, _)
LookBack(result, j) ==
    IF j >= 1 /\ (isalnum(result[j]) \/ result[j] = <<"_">>)
    THEN LookBack(result, j - 1)
    ELSE j

\* the copy loop of lines 151-156: up to and including the next ';'
RECURSIVE CopyEntity(_, _, _)
CopyEntity(sanitized, i, result) ==
    IF i < Len(sanitized) /\ sanitized[i + 1] # ";"
    THEN CopyEntity(sanitized, i + 1, Append(result, <<sanitized[i + 1]>>))
    ELSE IF i < Len(sanitized)
    THEN [i |-> i + 1, result |-> Append(result, <<";">>)]
    ELSE [i |-> i, result |-> result]

\* a variant that enters the tag without moving the read index
OuterStepKeepsIndex(sanitized, st) ==
    IF Slice(sanitized, st.i, st.i + 8) = GENESET_OPEN
    THEN [st EXCEPT !.result = Append(@, GENESET_OPEN), !.mode = "tag"]
    ELSE [st EXCEPT !.result = Append(@, <<sanitized[st.i + 1]>>), !.i = @ + 1]

\* one iteration of the outer loop (line 82) outside a GENESET tag
OuterStep(sanitized, st) ==
    IF Slice(sanitized, st.i, st.i + 8) = GENESET_OPEN
    THEN [st EXCEPT !.result = Append(@, GENESET_OPEN), !.i = @ + 8, !.mode = "tag"]
    ELSE [st EXCEPT !.result = Append(@, <<sanitized[st.i + 1]>>), !.i = @ + 1]

\* one iteration of the in-tag loop (line 90)
TagStep(sanitized, st) ==
    LET i == st.i
        n == Len(sanitized)
        char == sanitized[i + 1]
    IN  IF Slice(sanitized, i, i + 2) = <<"/", ">">>
        THEN [st EXCEPT !.result = Append(@, <<"/", ">">>), !.i = @ + 2, !.mode = "outer"]
        ELSE IF char = ">"
        THEN [st EXCEPT !.result = Append(@, <<">">>), !.i = @ + 1, !.mode = "outer"]
        ELSE IF char = "=" /\ i + 1 < n /\ sanitized[i + 2] = "\""
        THEN IF LookBack(st.result, Len(st.result)) < Len(st.result)
             THEN [st EXCEPT !.result = @ \o << <<"=">>, <<"\"">> >>,
                             !.i = @ + 2, !.mode = "attr"]
             ELSE [st EXCEPT !.result = Append(@, <<char>>), !.i = @ + 1]
        ELSE [st EXCEPT !.result = Append(@, <<char>>), !.i = @ + 1]

\* one iteration of the in-attribute-value loop (line 117)
AttrStep(sanitized, st) ==
    LET i == st.i
        n == Len(sanitized)
        c == sanitized[i + 1]
    IN  IF c = "\""
        THEN LET remaining == IF i + 1 < n THEN Slice(sanitized, i + 1, i + 25) ELSE <<>>
             IN  IF is_end(remaining)
                 THEN [st EXCEPT !.result = Append(@, <<"\"">>), !.i = @ + 1, !.mode = "tag"]
                 ELSE [st EXCEPT !.result = Append(@, QUOT_ENTITY), !.i = @ + 1,
                                 !.escape_count = @ + 1]
        ELSE IF c = "&"
        THEN IF IsEscapedEntity(Slice(sanitized, i, i + 10))
             THEN LET copied == CopyEntity(sanitized, i, st.result)
                  IN  [st EXCEPT !.result = copied.result, !.i = copied.i]
             ELSE [st EXCEPT !.result = Append(@, AMP_ENTITY), !.i = @ + 1,
                             !.escape_count = @ + 1]
        ELSE IF c = "<"
        THEN [st EXCEPT !.result = Append(@, LT_ENTITY), !.i = @ + 1, !.escape_count = @ + 1]
        ELSE IF c = ">"
        THEN [st EXCEPT !.result = Append(@, GT_ENTITY), !.i = @ + 1, !.escape_count = @ + 1]
        ELSE [st EXCEPT !.result = Append(@, <<c>>), !.i = @ + 1]

\* one iteration of whichever loop the scan is in
ScanStep(sanitized, st) ==
    IF st.mode = "outer" THEN OuterStep(sanitized, st)
    ELSE IF st.mode = "tag" THEN TagStep(sanitized, st)
    ELSE AttrStep(sanitized, st)

\* all three loops run while i < n
RECURSIVE ScanFrom(_, _)
ScanFrom(sanitized, st) ==
    IF st.i < Len(sanitized) THEN ScanFrom(sanitized, ScanStep(sanitized, st)) ELSE st

ScanStart == [mode |-> "outer", i |-> 0, result |-> <<>>, escape_count |-> 0]

\* the run of create_sanitized_xml_copy on a file with the given bytes:
\* text is what the parser will read, file the bytes at the returned path
create_sanitized_xml_copy(raw_content) ==
    LET content == decode(raw_content)
        replacement_count == count(content, ReplacementChar)
        cleaned == sanitize_xml_content(content)
        removed_count == Len(content) - Len(cleaned)
        scanned == ScanFrom(cleaned, ScanStart)
        sanitized == Join(scanned.result)
        escape_count == scanned.escape_count
        copy == removed_count > 0 \/ replacement_count > 0 \/ escape_count > 0
    IN  [content |-> content,
         text |-> sanitized,
         replacement_count |-> replacement_count,
         removed_count |-> removed_count,
         escape_count |-> escape_count,
         path |-> IF copy THEN "sanitized" ELSE "original",
         file |-> IF copy THEN encode(sanitized) ELSE raw_content]

\* the inputs: a prefix followed by up to MaxAtoms atoms, and whole examples
AttrPrefix == GENESET_OPEN \o <<" ", "A", "=", "\"">>
Atoms ==
    { <<"\"">>, <<" ">>, <<"B">>, <<"b">>, <<"&">>, <<"<">>, <<">">>,
      <<"/", ">">>, <<"=", "\"">>, AMP_ENTITY, <<"&", "#", "1", ";">>,
      <<"\\x01">>, <<InvalidByte>>, GENESET_OPEN }

EscapingExample ==
    GENESET_OPEN \o
    <<" ", "S", "T", "A", "N", "D", "A", "R", "D", "_", "N", "A", "M", "E", "=", "\"", "X", "\"",
      " ", "D", "E", "S", "C", "=", "\"", "a", " ", "&", " ", "b", " ", "<", "c", ">", "\"",
      "/", ">">>

LowercaseAttributeExample ==
    GENESET_OPEN \o
    <<" ", "A", "=", "\"", "x", "\"", " ", "b", "=", "\"", "y", "\"", "/", ">">>

NewlineSeparatorExample ==
    GENESET_OPEN \o
    <<" ", "A", "=", "\"", "x", "\"", "\n", "B", "=", "\"", "y", "\"", "/", ">">>

\* a file that holds a validly encoded U+FFFD
ReplacementCharExample ==
    GENESET_OPEN \o <<" ", "A", "=", "\"", ReplacementChar, "\"", "/", ">">>

\* a file whose value holds a hexadecimal reference of eleven characters
LongReferenceExample ==
    GENESET_OPEN \o
    <<" ", "A", "=", "\"", "&", "#", "x", "0", "0", "0", "0", "0", "4", "1", ";", "\"", "/", ">">>

PlainExample ==
    GENESET_OPEN \o
    <<" ", "A", "=", "\"", "x", "\"", " ", "B", "=", "\"", "&", "l", "t", ";", "\"", "/", ">">>

XmlFiles ==
    {p \o Join(atoms) : p \in {<<>>, AttrPrefix}, atoms \in SeqsUpTo(Atoms, MaxAtoms)}
        \cup {EscapingExample, LowercaseAttributeExample, NewlineSeparatorExample,
              ReplacementCharExample, LongReferenceExample, PlainExample}

InitSan ==
    /\ s_raw \in XmlFiles
    /\ s_runs = <<>>
    /\ IdleCache
    /\ IdleMembers
    /\ IdleRun

\* process_species calls create_sanitized_xml_copy(xml_path)
Sanitize ==
    /\ s_runs = <<>>
    /\ s_runs' = <<create_sanitized_xml_copy(s_raw)>>
    /\ UNCHANGED <<s_raw, m_kind, m_input, m_doc, c_kind, c_xml, c_db, c_sql, c_related, p_in, p_run, p_fs, p_main>>

\* the sanitizer is run again on the file at the path the first run returned
SanitizeAgain ==
    /\ Len(s_runs) = 1
    /\ s_runs' = Append(s_runs, create_sanitized_xml_copy(s_runs[1].file))
    /\ UNCHANGED <<s_raw, m_kind, m_input, m_doc, c_kind, c_xml, c_db, c_sql, c_related, p_in, p_run, p_fs, p_main>>

NextSan == Sanitize \/ SanitizeAgain

SpecSan == InitSan /\ [][NextSan]_vars

-----------------------------------------------------------------------------
(* Well-formed inputs: a recognizer of XML documents that consist of one   *)
(* empty-element GENESET tag.  It accepts only well-formed documents (it   *)
(* is stricter than XML 1.0: attribute values must not hold a bare '>',    *)
(* hexadecimal references and single-quoted values are not accepted).      *)

LegalCodepoint(codepoint) ==
    \/ codepoint \in {9, 10, 13}
    \/ (32 <= codepoint /\ codepoint <= 55295)
    \/ (57344 <= codepoint /\ codepoint <= 65533)
    \/ (65536 <= codepoint /\ codepoint <= 1114111)

RECURSIVE DecimalValue(_)
DecimalValue(digits) ==
    IF digits = <<>> THEN 0
    ELSE 10 * DecimalValue(SubSeq(digits, 1, Len(digits) - 1)) + (ord(digits[Len(digits)]) - 48)

\* the length of the well-formed reference that s starts with, 0 if none
ReferenceLength(s) ==
    IF \A k \in 1..Len(s) : s[k] # ";" THEN 0
    ELSE LET k == CHOOSE j \in 1..Len(s) : s[j] = ";" /\ \A h \in 1..(j - 1) : s[h] # ";"
             body == SubSeq(s, 2, k - 1)
         IN  IF <<"&">> \o body \o <<";">> \in
                    {LT_ENTITY, GT_ENTITY, AMP_ENTITY, QUOT_ENTITY, APOS_ENTITY}
             THEN k
             ELSE IF /\ Len(body) >= 2
                     /\ Len(body) <= 8
                     /\ body[1] = "#"
                     /\ isdigit(Tail(body))
                     /\ LegalCodepoint(DecimalValue(Tail(body)))
             THEN k
             ELSE 0

IsNameStartChar(c) == IsUpperChar(c) \/ IsLowerChar(c) \/ c = "_"
IsNameChar(c) == IsNameStartChar(c) \/ IsDigitChar(c)

RECURSIVE SkipSpace(_)
SkipSpace(s) == IF s # <<>> /\ IsSpaceChar(s[1]) THEN SkipSpace(Tail(s)) ELSE s

RECURSIVE NameLength(_)
NameLength(s) == IF s # <<>> /\ IsNameChar(s[1]) THEN 1 + NameLength(Tail(s)) ELSE 0

RECURSIVE WellFormedValue(_, _)
RECURSIVE WellFormedAttributes(_, _)

\* s starts inside a double-quoted attribute value; names are the attributes seen
WellFormedValue(s, names) ==
    IF s = <<>> THEN FALSE
    ELSE IF s[1] = "\"" THEN WellFormedAttributes(Tail(s), names)
    ELSE IF s[1] \in {"<", ">"} THEN FALSE
    ELSE IF s[1] = "&"
    THEN LET k == ReferenceLength(s)
         IN  k > 0 /\ WellFormedValue(SubSeq(s, k + 1, Len(s)), names)
    ELSE WellFormedValue(Tail(s), names)

\* s follows the tag name or the closing quote of an attribute value
WellFormedAttributes(s, names) ==
    IF s = <<"/", ">">> THEN TRUE
    ELSE IF s = <<>> \/ ~IsSpaceChar(s[1]) THEN FALSE
    ELSE LET t == SkipSpace(s)
             k == NameLength(t)
             name == SubSeq(t, 1, k)
         IN  \/ t = <<"/", ">">>
             \/ /\ k >= 1
                /\ IsNameStartChar(t[1])
                /\ name \notin names
                /\ Len(t) >= k + 2
                /\ t[k + 1] = "="
                /\ t[k + 2] = "\""
                /\ WellFormedValue(SubSeq(t, k + 3, Len(t)), names \cup {name})

\* valid UTF-8, only legal XML characters, one well-formed GENESET element
WellFormed(raw_content) ==
    /\ \A k \in 1..Len(raw_content) :
        raw_content[k] # InvalidByte /\ valid_xml_char(raw_content[k])
    /\ startswith(raw_content, GENESET_OPEN)
    /\ WellFormedAttributes(SubSeq(raw_content, 9, Len(raw_content)), {})

\* C9: for an input that is already well-formed XML the sanitizer makes no
\* repair: escape_count is 0, the text to parse is identical to the input and
\* the original path is returned.
C9_WellFormedUntouched ==
    (s_runs # <<>> /\ WellFormed(s_raw)) =>
        /\ s_runs[1].escape_count = 0
        /\ s_runs[1].text = decode(s_raw)
        /\ s_runs[1].path = "original"

\* C10: the text transformation is idempotent: a second run, on the output of
\* the first, gives the same text with zero escapes and zero removals.
C10_SanitizerIdempotent ==
    Len(s_runs) = 2 =>
        /\ s_runs[2].text = s_runs[1].text
        /\ s_runs[2].escape_count = 0
        /\ s_runs[2].removed_count = 0

C10_Witness ==
    /\ Len(s_runs) = 2
    /\ s_runs[1].escape_count > 1
    /\ s_runs[1].removed_count > 0
    /\ s_runs[2].path = "original"

-----------------------------------------------------------------------------
(* Documents whose attribute values are unambiguous: one empty-element     *)
(* GENESET tag whose values are double-quoted and hold no '"'.  Values may *)
(* hold bare '&', '<' and '>', which is what the sanitizer is to repair.   *)

\* the length of the reference (named, decimal or hexadecimal, of any
\* length) that s starts with, 0 if s does not start with one
AnyReferenceLength(s) ==
    IF s = <<>> \/ s[1] # "&" \/ \A k \in 1..Len(s) : s[k] # ";" THEN 0
    ELSE LET k == CHOOSE j \in 1..Len(s) : s[j] = ";" /\ \A h \in 1..(j - 1) : s[h] # ";"
             body == SubSeq(s, 2, k - 1)
         IN  IF <<"&">> \o body \o <<";">> \in
                    {LT_ENTITY, GT_ENTITY, AMP_ENTITY, QUOT_ENTITY, APOS_ENTITY}
             THEN k
             ELSE IF Len(body) >= 2 /\ body[1] = "#" /\ isdigit(Tail(body))
             THEN k
             ELSE IF /\ Len(body) >= 3
                     /\ body[1] = "#"
                     /\ body[2] = "x"
                     /\ \A h \in 3..Len(body) : IsHexChar(body[h])
             THEN k
             ELSE 0

RECURSIVE QuotedValue(_)
RECURSIVE QuotedAttributes(_)

\* s starts inside a double-quoted value
QuotedValue(s) ==
    IF s = <<>> THEN FALSE
    ELSE IF s[1] = "\"" THEN QuotedAttributes(Tail(s))
    ELSE QuotedValue(Tail(s))

\* s follows the tag name or the closing quote of a value
QuotedAttributes(s) ==
    IF s = <<"/", ">">> THEN TRUE
    ELSE IF s = <<>> \/ ~IsSpaceChar(s[1]) THEN FALSE
    ELSE LET t == SkipSpace(s)
             k == NameLength(t)
         IN  \/ t = <<"/", ">">>
             \/ /\ k >= 1
                /\ IsNameStartChar(t[1])
                /\ Len(t) >= k + 2
                /\ t[k + 1] = "="
                /\ t[k + 2] = "\""
                /\ QuotedValue(SubSeq(t, k + 3, Len(t)))

\* one GENESET tag with double-quoted values, legal characters only
QuotedDocument(text) ==
    /\ \A k \in 1..Len(text) : valid_xml_char(text[k])
    /\ startswith(text, GENESET_OPEN)
    /\ QuotedAttributes(SubSeq(text, 9, Len(text)))

\* the repair asked for: outside the quotes every character is kept, inside
\* them bare '&', '<', '>' become entities and references are kept
RECURSIVE EscapedValues(_, _)
EscapedValues(s, inside) ==
    IF s = <<>> THEN <<>>
    ELSE IF s[1] = "\"" THEN <<"\"">> \o EscapedValues(Tail(s), ~inside)
    ELSE IF ~inside THEN <<s[1]>> \o EscapedValues(Tail(s), inside)
    ELSE IF s[1] = "<" THEN LT_ENTITY \o EscapedValues(Tail(s), inside)
    ELSE IF s[1] = ">" THEN GT_ENTITY \o EscapedValues(Tail(s), inside)
    ELSE IF s[1] = "&"
    THEN LET k == AnyReferenceLength(s)
         IN  IF k > 0
             THEN SubSeq(s, 1, k) \o EscapedValues(SubSeq(s, k + 1, Len(s)), inside)
             ELSE AMP_ENTITY \o EscapedValues(Tail(s), inside)
    ELSE <<s[1]>> \o EscapedValues(Tail(s), inside)

\* "<GENESET STANDARD_NAME="X" DESC="a &amp; b &lt;c&gt;"/>"
EscapingExampleOutput ==
    GENESET_OPEN \o
    <<" ", "S", "T", "A", "N", "D", "A", "R", "D", "_", "N", "A", "M", "E", "=", "\"", "X", "\"",
      " ", "D", "E", "S", "C", "=", "\"", "a", " ", "&", "a", "m", "p", ";", " ", "b", " ",
      "&", "l", "t", ";", "c", "&", "g", "t", ";", "\"", "/", ">">>

\* C11: inside a GENESET attribute value every bare '&', '<', '>' becomes
\* '&amp;', '&lt;', '&gt;' while the attribute delimiters and all other
\* characters are kept; the example document gives the example output.
C11_AttributeValuesEscaped ==
    s_runs # <<>> =>
        /\ QuotedDocument(s_runs[1].content) =>
                s_runs[1].text = EscapedValues(s_runs[1].content, FALSE)
        /\ s_raw = EscapingExample => s_runs[1].text = EscapingExampleOutput

-----------------------------------------------------------------------------
(* The scan of the first run, iteration by iteration.                      *)

\* the states of the scan: before each loop iteration, and the final state
RECURSIVE ScanTrace(_, _)
ScanTrace(sanitized, st) ==
    IF st.i < Len(sanitized)
    THEN <<st>> \o ScanTrace(sanitized, ScanStep(sanitized, st))
    ELSE <<st>>

\* the text the first run scans (after decoding and character removal)
FirstScanText == sanitize_xml_content(s_runs[1].content)

FirstScanTrace == ScanTrace(FirstScanText, ScanStart)

\* the pieces that iteration k of a trace appended to result
Appended(trace, k) ==
    SubSeq(trace[k + 1].result, Len(trace[k].result) + 1, Len(trace[k + 1].result))

\* the characters that iteration k of a trace consumed
Consumed(text, trace, k) == SubSeq(text, trace[k].i + 1, trace[k + 1].i)

\* iteration k reads a '"' while inside an attribute value
AtQuoteInValue(text, trace, k) ==
    trace[k].mode = "attr" /\ text[trace[k].i + 1] = "\""

\* iteration k keeps the '"' as the closing delimiter
ClosesValue(trace, k) ==
    /\ trace[k + 1].mode = "tag"
    /\ Appended(trace, k) = << <<"\"">> >>
    /\ trace[k + 1].i = trace[k].i + 1
    /\ trace[k + 1].escape_count = trace[k].escape_count

\* iteration k emits the '"' as '&quot;' and stays in the value
EscapesQuote(trace, k) ==
    /\ trace[k + 1].mode = "attr"
    /\ Appended(trace, k) = <<QUOT_ENTITY>>
    /\ trace[k + 1].i = trace[k].i + 1
    /\ trace[k + 1].escape_count = trace[k].escape_count + 1

\* what follows the character read by iteration k
RestAfter(text, trace, k) == SubSeq(text, trace[k].i + 2, Len(text))

\* end of input, space + uppercase letter, '/>' or '>'
FollowedByListedEnd(rest) ==
    \/ rest = <<>>
    \/ (Len(rest) >= 2 /\ rest[1] = " " /\ IsUpperChar(rest[2]))
    \/ startswith(rest, <<"/", ">">>)
    \/ startswith(rest, <<">">>)

FollowedBySpaceSlash(rest) == Len(rest) >= 2 /\ rest[1] = " " /\ rest[2] = "/"

AtReferenceInValue(text, trace, k) ==
    /\ trace[k].mode = "attr"
    /\ AnyReferenceLength(SubSeq(text, trace[k].i + 1, Len(text))) > 0

\* C13: inside an attribute value a valid entity reference (named, decimal or
\* hexadecimal, of any length) is copied to the output unchanged, its '&' is
\* not re-escaped, and the escape count does not grow.
C13_ReferencesCopied ==
    s_runs # <<>> =>
        LET text == FirstScanText
            trace == FirstScanTrace
        IN  \A k \in 1..(Len(trace) - 1) :
                AtReferenceInValue(text, trace, k) =>
                    LET len == AnyReferenceLength(SubSeq(text, trace[k].i + 1, Len(text)))
                    IN  /\ Consumed(text, trace, k) = SubSeq(text, trace[k].i + 1, trace[k].i + len)
                        /\ Join(Appended(trace, k)) = Consumed(text, trace, k)
                        /\ trace[k + 1].escape_count = trace[k].escape_count

\* the characters of a tag that lie outside its double-quoted values
RECURSIVE OutsideValues(_, _)
OutsideValues(s, inside) ==
    IF s = <<>> THEN <<>>
    ELSE IF s[1] = "\"" THEN <<"\"">> \o OutsideValues(Tail(s), ~inside)
    ELSE IF inside THEN OutsideValues(Tail(s), inside)
    ELSE <<s[1]>> \o OutsideValues(Tail(s), inside)

\* C14: the sanitizer changes nothing outside the attribute values of GENESET
\* opening tags: every legal character outside a GENESET opening tag, and
\* every character of such a tag that is not part of an attribute value,
\* appears in the output unchanged and in the same order.
C14_OutsideValuesUnchanged ==
    s_runs # <<>> =>
        LET text == FirstScanText
            trace == FirstScanTrace
        IN  /\ \A k \in 1..(Len(trace) - 1) :
                trace[k].mode # "attr" =>
                    /\ Join(Appended(trace, k)) = Consumed(text, trace, k)
                    /\ trace[k + 1].escape_count = trace[k].escape_count
            /\ QuotedDocument(text) =>
                OutsideValues(s_runs[1].text, FALSE) = OutsideValues(text, FALSE)

-----------------------------------------------------------------------------
(* A run of process_species (either exporter), step by step.               *)
(*   p_in   the arguments and the corpus: kind, xml_path, resume, limit,   *)
(*          the entities in processing order, whether the sanitizer has    *)
(*          something to repair, whether reading the corpus fails          *)
(*   p_run  pc, the loop position, the counters, and what the run did      *)
(*   p_fs   which of the source file and the sanitized copy exist, which   *)
(*          files were unlinked, and the output directory                  *)
(* An entity is [name, outcome]: the outcome says what                     *)
(* export_gene_set_to_yaml does once it is past the resume test: "ok"      *)
(* (the document is dumped and the name returned), "raises" (an exception  *)
(* before the output file is opened), "raises_in_dump" (an exception from  *)
(* yaml.dump, after the output file was opened for writing).               *)

MaxEntities == 2    \* most entities of the corpus of a run
MaxLimit == 2       \* largest value of the limit argument

EntityNames == {1, 2}
Outcomes == {"ok", "raises", "raises_in_dump"}
Entities == [name : EntityNames, outcome : Outcomes]
Corpora == SeqsUpTo(Entities, MaxEntities) \ {<<>>}
Limits == {None} \cup {Some(n) : n \in 0..MaxLimit}

\* the xml_path strings: "a", "./a", "d/a", "d//a"
XmlPathStrings ==
    { <<"a">>, <<".", "/", "a">>, <<"d", "/", "a">>, <<"d", "/", "/", "a">> }

\* Path(s): the parts of a relative path; empty and "." parts are dropped
PathOf(s) ==
    LET IsPart(part) == part # <<>> /\ part # <<".">>
    IN  SelectSeq(Split(s, "/"), IsPart)

\* str(path)
RECURSIVE StrOfPath(_)
StrOfPath(path) ==
    IF path = <<>> THEN <<".">>
    ELSE IF Len(path) = 1 THEN path[1]
    ELSE path[1] \o <<"/">> \o StrOfPath(Tail(path))

\* Path(tempfile.gettempdir()) / f"sanitized_{xml_path.name}"
SanitizedPathOf(path) ==
    << <<"t", "m", "p">>,
       <<"s", "a", "n", "i", "t", "i", "z", "e", "d", "_">> \o path[Len(path)] >>

\* what create_sanitized_xml_copy returns, given whether it repaired anything
ReturnedPath(path, needs_copy) == IF needs_copy THEN SanitizedPathOf(path) ELSE path

\* "if limit and exported_count >= limit"
LimitReached(limit, exported_count) ==
    /\ limit # None
    /\ TheValue(limit) # 0
    /\ exported_count >= TheValue(limit)

\* a variant of the resume test that never skips
NeverSkips(resume, exists) == FALSE

\* "if resume and output_file.exists()"
SkipsExisting(resume, exists) == resume /\ exists

\* a variant of the except clause that ends the loop
AbortAfterError(run, entities) == [run EXCEPT !.pos = Len(entities) + 1, !.pc = "loop"]

\* the except clause of the loop: the error is printed, the loop goes on
ContinueAfterError(run, entities) == [run EXCEPT !.pos = @ + 1, !.pc = "loop"]

\* an output file is [content, of]: "complete" or "partial" content of the
\* document of the entity at position "of", or a "sentinel" put there before
Absent == [content |-> "absent", of |-> 0]
Unreached == [content |-> "unreached", of |-> 0]

\* the content of the output file of a name
FileOf(out, name) == IF name \in DOMAIN out THEN out[name] ELSE Absent

\* the state of a run that has not started
NewRun(resume, run_no, entities) ==
    [pc |-> "start",
     run_no |-> run_no,
     resume |-> resume,
     pos |-> 1,
     exported_count |-> 0,
     skipped_count |-> 0,
     sanitized_xml_path |-> <<>>,
     use_sanitized |-> FALSE,
     attempted |-> {},
     wrote |-> {},
     reached |-> [k \in 1..Len(entities) |-> Unreached]]

SentinelDirs ==
    {[n \in names |-> [content |-> "sentinel", of |-> 0]] : names \in SUBSET EntityNames}

\* runs that vary the corpus, the flags and the output directory
LoopInputs ==
    [kind : {"xml", "sqlite"},
     xml_path : {<<"a">>},
     needs_copy : {FALSE},
     corpus_fails : {FALSE},
     resume : BOOLEAN,
     limit : Limits,
     entities : Corpora,
     initial_out : SentinelDirs]

\* runs that vary the path string, the sanitizer's outcome and corpus failure
FileInputs ==
    [kind : {"xml", "sqlite"},
     xml_path : XmlPathStrings,
     needs_copy : BOOLEAN,
     corpus_fails : BOOLEAN,
     resume : {FALSE},
     limit : {None},
     entities : {<<[name |-> 1, outcome |-> "ok"]>>},
     initial_out : {<<>>}]

InitRun ==
    /\ p_in \in {i \in LoopInputs \cup FileInputs : i.kind = "sqlite" => ~i.needs_copy}
    /\ p_run = NewRun(p_in.resume, 1, p_in.entities)
    /\ p_fs = [exists |-> {PathOf(p_in.xml_path)},
               unlinked |-> {},
               out |-> p_in.initial_out]
    /\ p_main = {}
    /\ IdleMembers
    /\ IdleCache
    /\ IdleSanitizer

\* process_species (XML) up to the end of the first pass: the sanitized copy
\* is created when the sanitizer repaired something; parsing may raise
PrepareXml ==
    /\ p_in.kind = "xml"
    /\ p_run.pc = "start"
    /\ LET path == PathOf(p_in.xml_path)
           sanitized_xml_path == ReturnedPath(path, p_in.needs_copy)
       IN  /\ p_fs' = [p_fs EXCEPT !.exists = @ \cup {sanitized_xml_path}]
           /\ p_run' = [p_run EXCEPT
                    !.sanitized_xml_path = sanitized_xml_path,
                    !.use_sanitized = (StrOfPath(sanitized_xml_path) # p_in.xml_path),
                    !.pc = IF p_in.corpus_fails THEN "raised" ELSE "loop"]
    /\ UNCHANGED <<p_in, p_main, m_kind, m_input, m_doc, c_kind, c_xml, c_db, c_sql,
                   c_related, s_raw, s_runs>>

\* process_species (SQLite) up to cache.preload_all(): the queries may raise
PrepareSqlite ==
    /\ p_in.kind = "sqlite"
    /\ p_run.pc = "start"
    /\ p_run' = [p_run EXCEPT !.pc = IF p_in.corpus_fails THEN "raised" ELSE "loop"]
    /\ UNCHANGED <<p_in, p_fs, p_main, m_kind, m_input, m_doc, c_kind, c_xml, c_db, c_sql,
                   c_related, s_raw, s_runs>>

\* one loop iteration up to the point where the output file is open: the
\* limit test passed; the entity is skipped, or its export raises, or its
\* output file is opened (and truncated) for writing
ExportNext ==
    /\ p_run.pc = "loop"
    /\ p_run.pos <= Len(p_in.entities)
    /\ ~LimitReached(p_in.limit, p_run.exported_count)
    /\ LET k == p_run.pos
           entity == p_in.entities[k]
           found == FileOf(p_fs.out, entity.name)
           called == [p_run EXCEPT !.attempted = @ \cup {k}, !.reached[k] = found]
       IN  IF SkipsExisting(p_run.resume, found.content # "absent")
           THEN /\ p_run' = [called EXCEPT !.skipped_count = @ + 1, !.pos = @ + 1]
                /\ UNCHANGED p_fs
           ELSE IF entity.outcome = "raises"
           THEN /\ p_run' = ContinueAfterError(called, p_in.entities)
                /\ UNCHANGED p_fs
           ELSE /\ p_run' = [called EXCEPT !.pc = "dumping"]
                /\ p_fs' = [p_fs EXCEPT !.out =
                                DictPut(@, entity.name, [content |-> "partial", of |-> k])]
    /\ UNCHANGED <<p_in, p_main, m_kind, m_input, m_doc, c_kind, c_xml, c_db, c_sql,
                   c_related, s_raw, s_runs>>

\* yaml.dump finishes (the name is returned and counted) or raises
FinishDump ==
    /\ p_run.pc = "dumping"
    /\ LET k == p_run.pos
           entity == p_in.entities[k]
       IN  IF entity.outcome = "ok"
           THEN /\ p_fs' = [p_fs EXCEPT !.out =
                                DictPut(@, entity.name, [content |-> "complete", of |-> k])]
                /\ p_run' = [p_run EXCEPT !.exported_count = @ + 1, !.wrote = @ \cup {k},
                                          !.pos = @ + 1, !.pc = "loop"]
           ELSE /\ p_run' = ContinueAfterError(p_run, p_in.entities)
                /\ UNCHANGED p_fs
    /\ UNCHANGED <<p_in, p_main, m_kind, m_input, m_doc, c_kind, c_xml, c_db, c_sql,
                   c_related, s_raw, s_runs>>

\* the loop is over (no entity left, or the limit test breaks): the XML
\* exporter unlinks the sanitized copy, and process_species returns
Finish ==
    /\ p_run.pc = "loop"
    /\ \/ p_run.pos > Len(p_in.entities)
       \/ LimitReached(p_in.limit, p_run.exported_count)
    /\ IF /\ p_in.kind = "xml"
          /\ p_run.use_sanitized
          /\ p_run.sanitized_xml_path \in p_fs.exists
       THEN p_fs' = [p_fs EXCEPT !.exists = @ \ {p_run.sanitized_xml_path},
                                 !.unlinked = @ \cup {p_run.sanitized_xml_path}]
       ELSE UNCHANGED p_fs
    /\ p_run' = [p_run EXCEPT !.pc = "returned"]
    /\ UNCHANGED <<p_in, p_main, m_kind, m_input, m_doc, c_kind, c_xml, c_db, c_sql,
                   c_related, s_raw, s_runs>>

\* the process is killed (followed for a first run without a limit that was
\* started on an empty output directory)
Kill ==
    /\ p_run.pc \in {"start", "loop", "dumping"}
    /\ p_run.run_no = 1
    /\ p_in.limit = None
    /\ DOMAIN p_in.initial_out = {}
    /\ p_run' = [p_run EXCEPT !.pc = "killed"]
    /\ UNCHANGED <<p_in, p_fs, p_main, m_kind, m_input, m_doc, c_kind, c_xml, c_db, c_sql,
                   c_related, s_raw, s_runs>>

\* the export is started again with the resume flag, on the files as they are
Rerun ==
    /\ p_run.pc = "killed"
    /\ p_run' = NewRun(TRUE, p_run.run_no + 1, p_in.entities)
    /\ UNCHANGED <<p_in, p_fs, p_main, m_kind, m_input, m_doc, c_kind, c_xml, c_db, c_sql,
                   c_related, s_raw, s_runs>>

NextRun == PrepareXml \/ PrepareSqlite \/ ExportNext \/ FinishDump \/ Finish \/ Kill \/ Rerun

SpecRun == InitRun /\ [][NextRun]_vars

-----------------------------------------------------------------------------
(* Claims about one run of process_species.                                *)

\* entity k is within the limit: no limit, or fewer than limit documents
\* were written for the entities before it
WithinLimit(k) ==
    \/ p_in.limit = None
    \/ Cardinality(p_run.wrote \cap 1..(k - 1)) < TheValue(p_in.limit)

RunPositions == 1..Len(p_in.entities)

\* C15: with the resume flag set, an entity whose output file exists when the
\* run reaches it keeps that file unchanged and is not counted as exported
\* (the count is the number of documents written), and when the run has
\* returned every entity within the limit was reached, and each one whose
\* file was missing and whose export does not fail has its complete document
\* in its file.
C15_ResumeKeepsExisting ==
    p_run.resume =>
        /\ p_run.exported_count = Cardinality(p_run.wrote)
        /\ \A k \in p_run.attempted :
               p_run.reached[k] # Absent =>
                   /\ k \notin p_run.wrote
                   /\ FileOf(p_fs.out, p_in.entities[k].name) = p_run.reached[k]
        /\ p_run.pc = "returned" =>
               \A k \in RunPositions :
                   WithinLimit(k) =>
                       /\ k \in p_run.attempted
                       /\ (p_run.reached[k] = Absent /\ p_in.entities[k].outcome = "ok") =>
                              /\ k \in p_run.wrote
                              /\ FileOf(p_fs.out, p_in.entities[k].name) =
                                     [content |-> "complete", of |-> k]

\* a returned resume run that found one entity's file and wrote another's
C15_Witness ==
    /\ p_run.resume
    /\ p_run.run_no = 1
    /\ p_run.pc = "returned"
    /\ \E j, k \in p_run.attempted :
           /\ p_run.reached[j].content = "sentinel"
           /\ FileOf(p_fs.out, p_in.entities[j].name).content = "sentinel"
           /\ p_run.reached[k] = Absent
           /\ k \in p_run.wrote

\* C16: when a run was killed and the export was run again with the resume
\* flag until it returned, every file of the output directory holds a
\* complete document and every entity has a file (stated for corpora in
\* which no export fails).
C16_ResumeAfterKill ==
    ( /\ p_run.run_no = 2
      /\ p_run.pc = "returned"
      /\ \A k \in RunPositions : p_in.entities[k].outcome = "ok" ) =>
        /\ \A name \in DOMAIN p_fs.out : p_fs.out[name].content = "complete"
        /\ \A k \in RunPositions : p_in.entities[k].name \in DOMAIN p_fs.out

\* C17: with a limit N >= 0, a run writes at most N documents, and they are
\* those of the first entities in processing order whose export produces a
\* document (an entity that is skipped by resume, or whose export raises,
\* produces none).
C17_AtMostLimit ==
    p_in.limit # None =>
        /\ Cardinality(p_run.wrote) <= TheValue(p_in.limit)
        /\ p_run.exported_count <= TheValue(p_in.limit)
        /\ p_run.pc = "returned" =>
               \A k \in RunPositions :
                   ( /\ p_in.entities[k].outcome = "ok"
                     /\ k \in p_run.attempted => p_run.reached[k] = Absent \/ ~p_run.resume
                     /\ Cardinality(p_run.wrote \cap 1..(k - 1)) < TheValue(p_in.limit) )
                       => k \in p_run.wrote

\* C18: an exception of export_gene_set_to_yaml for one entity is caught: the
\* run does not end by raising unless reading the corpus failed, the entity
\* is not counted (the count is the number of documents written), and when
\* the run has returned every later entity within the limit was attempted,
\* and each of them that the resume test does not skip and whose export does
\* not fail had its document written.
C18_EntityFailureContained ==
    /\ p_run.pc = "raised" => p_in.corpus_fails
    /\ p_run.exported_count = Cardinality(p_run.wrote)
    /\ \A e \in p_run.attempted :
           ( /\ p_in.entities[e].outcome # "ok"
             /\ ~SkipsExisting(p_run.resume, p_run.reached[e] # Absent) ) =>
               /\ e \notin p_run.wrote
               /\ p_run.pc = "returned" =>
                      \A k \in RunPositions :
                          (k > e /\ WithinLimit(k)) =>
                              /\ k \in p_run.attempted
                              /\ ( /\ p_in.entities[k].outcome = "ok"
                                   /\ ~SkipsExisting(p_run.resume, p_run.reached[k] # Absent) )
                                     => k \in p_run.wrote

\* a returned run in which an export raised and a later entity was written
C18_Witness ==
    /\ p_run.pc = "returned"
    /\ \E e, k \in p_run.attempted :
           /\ p_in.entities[e].outcome # "ok"
           /\ ~SkipsExisting(p_run.resume, p_run.reached[e] # Absent)
           /\ k > e
           /\ k \in p_run.wrote

\* C20: after a run of the XML exporter's process_species the input XML file
\* still exists, and the only file the run removed is the sanitized copy
\* that create_sanitized_xml_copy created.
C20_SourceKept ==
    (p_in.kind = "xml" /\ p_run.pc = "returned") =>
        /\ PathOf(p_in.xml_path) \in p_fs.exists
        /\ p_fs.unlinked \subseteq
               {path \in {SanitizedPathOf(PathOf(p_in.xml_path))} : p_in.needs_copy}

-----------------------------------------------------------------------------
(* main() of either exporter: the limits of the two species are computed   *)
(* from the arguments, then process_species is called for human and for    *)
(* mouse, one after the other, with no exception handler around the calls. *)
(* A corpus is [size, fails]: the number of its entities (all exportable)  *)
(* and whether reading it raises (XML that does not parse, a database that *)
(* cannot be read).                                                        *)
(*   p_in    the arguments (kind, human, mouse, limit) and the two corpora *)
(*   p_main  pc, the two limits, the two counts, the species whose         *)
(*           process_species call was made                                 *)

Max(a, b) == IF a >= b THEN a ELSE b

\* the count process_species returns for a readable corpus of the given
\* size on an empty output directory: the loop of ExportNext and FinishDump
RECURSIVE LoopCount(_, _, _)
LoopCount(left, limit, exported_count) ==
    IF left = 0 \/ LimitReached(limit, exported_count)
    THEN exported_count
    ELSE LoopCount(left - 1, limit, exported_count + 1)

SpeciesCorpora == [size : 0..MaxEntities, fails : BOOLEAN]

MainInputs ==
    [kind : {"xml", "sqlite"},
     human : BOOLEAN,
     mouse : BOOLEAN,
     limit : Limits,
     hs : SpeciesCorpora,
     mm : SpeciesCorpora]

\* "if args.limit": the argument is given and is not 0
LimitGiven(limit) == limit # None /\ TheValue(limit) # 0

\* human_limit as computed before the first call
HumanLimit(args) ==
    IF ~LimitGiven(args.limit) THEN None
    ELSE IF args.mouse /\ ~args.human THEN None
    ELSE args.limit

\* mouse_limit as computed before the first call
MouseLimit(args) ==
    IF ~LimitGiven(args.limit) THEN None
    ELSE IF args.human /\ ~args.mouse THEN None
    ELSE IF args.kind = "sqlite" /\ ~(args.mouse /\ ~args.human)
    THEN Some(Max(0, TheValue(args.limit)))
    ELSE args.limit

HumanSelected(args) == args.human \/ (~args.human /\ ~args.mouse)
MouseSelected(args) == args.mouse \/ (~args.human /\ ~args.mouse)

InitMain ==
    /\ p_in \in MainInputs
    /\ p_main = [pc |-> "human",
                 human_limit |-> HumanLimit(p_in),
                 mouse_limit |-> MouseLimit(p_in),
                 human_count |-> 0,
                 mouse_count |-> 0,
                 called |-> {},
                 raised_in |-> {}]
    /\ p_run = {}
    /\ p_fs = {}
    /\ IdleMembers
    /\ IdleCache
    /\ IdleSanitizer

\* the human branch of main: process_species is called when human is
\* selected; its exception leaves main; the SQLite exporter then lowers the
\* mouse limit when neither species flag was given
MainHuman ==
    /\ p_main.pc = "human"
    /\ IF ~HumanSelected(p_in)
       THEN p_main' = [p_main EXCEPT !.pc = "mouse"]
       ELSE IF p_in.hs.fails
       THEN p_main' = [p_main EXCEPT !.pc = "raised", !.called = @ \cup {"human"},
                                     !.raised_in = {"human"}]
       ELSE LET human_count == LoopCount(p_in.hs.size, p_main.human_limit, 0)
            IN  p_main' = [p_main EXCEPT
                    !.pc = "mouse",
                    !.called = @ \cup {"human"},
                    !.human_count = human_count,
                    !.mouse_limit =
                        IF /\ p_in.kind = "sqlite"
                           /\ LimitGiven(p_in.limit)
                           /\ p_main.mouse_limit # None
                           /\ ~p_in.human
                        THEN Some(Max(0, TheValue(p_in.limit) - human_count))
                        ELSE @]
    /\ UNCHANGED <<p_in, p_run, p_fs, m_kind, m_input, m_doc, c_kind, c_xml, c_db, c_sql,
                   c_related, s_raw, s_runs>>

\* the mouse branch of main
MainMouse ==
    /\ p_main.pc = "mouse"
    /\ IF ~MouseSelected(p_in)
       THEN p_main' = [p_main EXCEPT !.pc = "done"]
       ELSE IF p_in.mm.fails
       THEN p_main' = [p_main EXCEPT !.pc = "raised", !.called = @ \cup {"mouse"},
                                     !.raised_in = {"mouse"}]
       ELSE p_main' = [p_main EXCEPT
                    !.pc = "done",
                    !.called = @ \cup {"mouse"},
                    !.mouse_count = LoopCount(p_in.mm.size, p_main.mouse_limit, 0)]
    /\ UNCHANGED <<p_in, p_run, p_fs, m_kind, m_input, m_doc, c_kind, c_xml, c_db, c_sql,
                   c_related, s_raw, s_runs>>

NextMain == MainHuman \/ MainMouse

SpecMain == InitMain /\ [][NextMain]_vars

\* C19: when both species are processed and the human run fails at corpus
\* level, main does not end before process_species was called for mouse.
C19_MouseRunsAfterHumanFailure ==
    ( /\ HumanSelected(p_in)
      /\ MouseSelected(p_in)
      /\ p_in.hs.fails
      /\ p_main.pc \in {"done", "raised"} ) => "mouse" \in p_main.called

\* C30: in the SQLite exporter's main(), when both species are processed
\* (no species flag, or both flags) with --limit N, N > 0, the two runs
\* together export at most N documents.
C30_TotalWithinLimit ==
    ( /\ p_in.kind = "sqlite"
      /\ HumanSelected(p_in)
      /\ MouseSelected(p_in)
      /\ LimitGiven(p_in.limit)
      /\ p_main.pc = "done" ) =>
        p_main.human_count + p_main.mouse_count <= TheValue(p_in.limit)

\* C25: after a complete run (no limit, no failing export) started on an
\* empty output directory, with or without the resume flag, the file of a
\* standard name that two entities carry holds the complete document of the
\* later one.
C25_LastWriteWins ==
    ( /\ p_run.run_no = 1
      /\ p_run.pc = "returned"
      /\ DOMAIN p_in.initial_out = {}
      /\ p_in.limit = None
      /\ \A k \in RunPositions : p_in.entities[k].outcome = "ok" ) =>
        \A j, k \in RunPositions :
            (j < k /\ p_in.entities[j].name = p_in.entities[k].name) =>
                /\ FileOf(p_fs.out, p_in.entities[k].name).content = "complete"
                /\ FileOf(p_fs.out, p_in.entities[k].name).of >= k

-----------------------------------------------------------------------------
(* Termination of the scan.                                                *)

\* the states of the scan over at most the given number of loop iterations
RECURSIVE ScanIterations(_, _, _)
ScanIterations(sanitized, st, iterations) ==
    IF iterations > 0 /\ st.i < Len(sanitized)
    THEN <<st>> \o ScanIterations(sanitized, ScanStep(sanitized, st), iterations - 1)
    ELSE <<st>>

\* C27: the scan terminates: every iteration of the outer loop, of the in-tag
\* loop and of the in-attribute-value loop moves the read index forward by
\* at least one character and never past the end, so after at most one
\* iteration per character the index is at the end of the input, and
\* create_sanitized_xml_copy returns a path (the input's or the copy's).
C27_ScanTerminates ==
    Len(s_runs) = 1 =>
        LET text == FirstScanText
            trace == ScanIterations(text, ScanStart, Len(text))
        IN  /\ \A k \in 1..(Len(trace) - 1) :
                   /\ trace[k + 1].i >= trace[k].i + 1
                   /\ trace[k + 1].i <= Len(text)
            /\ trace[Len(trace)].i = Len(text)
            /\ trace[Len(trace)] = ScanFrom(text, ScanStart)
            /\ s_runs[1].path \in {"original", "sanitized"}

\* a scan that went through all three loops and copied an entity reference
C27_Witness ==
    /\ s_runs # <<>>
    /\ LET text == FirstScanText
           trace == ScanIterations(text, ScanStart, Len(text))
       IN  /\ \A mode \in {"outer", "tag", "attr"} :
                  \E k \in 1..(Len(trace) - 1) : trace[k].mode = mode
           /\ \E k \in 1..(Len(trace) - 1) :
                  trace[k].mode = "attr" /\ trace[k + 1].i > trace[k].i + 1

-----------------------------------------------------------------------------
(* process_species pass by pass: the relationship index is built, then the *)
(* entities are exported one after the other.                              *)
(*   XML     p_in is the list of GENESET elements [name, pmid, authors]    *)
(*           (name EmptyName: STANDARD_NAME missing or ''); c_xml is the   *)
(*           XMLDataCache                                                  *)
(*   SQLite  c_db is the database, with the rows of                        *)
(*           gene_set_archive_policy; c_sql is the preloaded DataCache     *)
(*   p_run   pc, the position in the pass, the ids selected for export     *)
(*   c_related  the related blocks of the documents written so far         *)

MaxElements == 2    \* most GENESET elements / gene_set rows of a corpus

\* elem.get('STANDARD_NAME', '') of an element without a usable name
EmptyName == 0

Elements == [name : {EmptyName, 1, 2}, pmid : {<<>>, <<"1">>},
             authors : {<<>>, <<"a">>, <<",", "b", " ">>}]

XmlCorpora == SeqsUpTo(Elements, MaxElements) \ {<<>>}

PolicyCodes == {"THRESHOLD_EXCLUDED", "ARCHIVED"}

PolicyDatabases ==
    UNION {
        [gene_set : NameTables(n),
         publication_id : [1..n -> {None} \cup {Some(p) : p \in PubIds}],
         publication : {PubIds},
         publication_author :
            { {}, {[publication_id |-> 1, author_id |-> 1]},
              {[publication_id |-> 1, author_id |-> 1],
               [publication_id |-> 2, author_id |-> 1]} },
         archive_policy : [1..n -> SUBSET PolicyCodes]]
        : n \in 1..MaxElements}

\* SELECT id FROM gene_set WHERE id NOT IN (... 'THRESHOLD_EXCLUDED') ORDER BY id
SelectGeneSetIds(db) ==
    SortedSeqOf({i \in DOMAIN db.gene_set : "THRESHOLD_EXCLUDED" \notin db.archive_policy[i]})

\* a variant in which the first pass ends after the first element
FirstPassStopsEarly(pos, n) == pos > 1

\* the first loop over the parsed elements ends after the last element
FirstPassDone(pos, n) == pos > n

\* defaultdict(list)[key] for each of the keys: a missing key is inserted
DefaultDictTouch(d, keys) ==
    [x \in DOMAIN d \cup keys |-> IF x \in DOMAIN d THEN d[x] ELSE <<>>]

\* the cache after get_related_by_publication(name) and
\* get_related_by_authors(name) have read it
XmlCacheAfterQueries(cache, name) ==
    IF name \notin DOMAIN cache.all_gene_sets THEN cache
    ELSE LET info == cache.all_gene_sets[name]
         IN  [cache EXCEPT
                !.gene_sets_by_pmid =
                    IF info.pmid = <<>> THEN @ ELSE DefaultDictTouch(@, {info.pmid}),
                !.gene_sets_by_author =
                    IF info.authors = <<>> THEN @
                    ELSE DefaultDictTouch(@, AuthorsOf(info.authors))]

InitPass ==
    /\ \/ /\ c_kind = "xml"
          /\ p_in \in XmlCorpora
          /\ c_db = {}
          /\ p_run = [pc |-> "first_pass", pos |-> 1, added |-> 0, ids |-> <<>>]
       \/ /\ c_kind = "sqlite"
          /\ p_in = <<>>
          /\ c_db \in {Some(db) : db \in PolicyDatabases}
          /\ p_run = [pc |-> "preload", pos |-> 1, added |-> 0, ids |-> <<>>]
    /\ c_xml = EmptyXmlCache
    /\ c_sql = {}
    /\ c_related = {}
    /\ p_fs = {}
    /\ p_main = {}
    /\ IdleMembers
    /\ IdleSanitizer

\* first pass (XML): cache.add_gene_set for the next GENESET element
CacheElement ==
    /\ c_kind = "xml"
    /\ p_run.pc = "first_pass"
    /\ LET elem == p_in[p_run.pos]
           done == FirstPassDone(p_run.pos + 1, Len(p_in))
       IN  /\ c_xml' = add_gene_set(c_xml, elem.name, elem.pmid, elem.authors)
           /\ p_run' = [p_run EXCEPT !.added = @ + 1,
                                     !.pos = IF done THEN 1 ELSE @ + 1,
                                     !.pc = IF done THEN "second_pass" ELSE @]
    /\ UNCHANGED <<p_in, c_kind, c_db, c_sql, c_related, p_fs, p_main, m_kind, m_input,
                   m_doc, s_raw, s_runs>>

\* second pass (XML): export_gene_set_to_yaml for the next GENESET element
ExportElement ==
    /\ c_kind = "xml"
    /\ p_run.pc = "second_pass"
    /\ LET elem == p_in[p_run.pos]
       IN  IF elem.name = EmptyName
           THEN UNCHANGED <<c_xml, c_related>>
           ELSE /\ c_related' = c_related \cup {XmlRelatedBlock(c_xml, elem.name)}
                /\ c_xml' = XmlCacheAfterQueries(c_xml, elem.name)
    /\ p_run' = [p_run EXCEPT !.pos = @ + 1,
                              !.pc = IF p_run.pos = Len(p_in) THEN "returned" ELSE @]
    /\ UNCHANGED <<p_in, c_kind, c_db, c_sql, p_fs, p_main, m_kind, m_input, m_doc,
                   s_raw, s_runs>>

\* process_species (SQLite) up to cache.preload_all()
SelectAndPreload ==
    /\ c_kind = "sqlite"
    /\ p_run.pc = "preload"
    /\ c_sql' = {preload_all(TheValue(c_db))}
    /\ LET ids == SelectGeneSetIds(TheValue(c_db))
       IN  p_run' = [p_run EXCEPT !.ids = ids,
                                  !.pc = IF ids = <<>> THEN "returned" ELSE "second_pass"]
    /\ UNCHANGED <<p_in, c_kind, c_xml, c_db, c_related, p_fs, p_main, m_kind, m_input,
                   m_doc, s_raw, s_runs>>

\* process_species (SQLite): export_gene_set_to_yaml for the next selected id
ExportGeneSet ==
    /\ c_kind = "sqlite"
    /\ p_run.pc = "second_pass"
    /\ c_related' = c_related \cup
            {SqlRelatedBlock(TheValue(c_sql), TheValue(c_db), p_run.ids[p_run.pos])}
    /\ p_run' = [p_run EXCEPT !.pos = @ + 1,
                              !.pc = IF p_run.pos = Len(p_run.ids) THEN "returned" ELSE @]
    /\ UNCHANGED <<p_in, c_kind, c_xml, c_db, c_sql, p_fs, p_main, m_kind, m_input, m_doc,
                   s_raw, s_runs>>

NextPass == CacheElement \/ ExportElement \/ SelectAndPreload \/ ExportGeneSet

SpecPass == InitPass /\ [][NextPass]_vars

\* C26: in the XML exporter every GENESET element has been added to the
\* index when the first pass is over, which is before the first document is
\* written, and from then on no step changes the index.
C26_IndexBuiltThenFrozen ==
    /\ [](c_kind = "xml" =>
            /\ c_related # {} => p_run.pc # "first_pass"
            /\ p_run.pc # "first_pass" =>
                /\ p_run.added = Len(p_in)
                /\ \A k \in 1..Len(p_in) : p_in[k].name \in DOMAIN c_xml.all_gene_sets)
    /\ [][(c_kind = "xml" /\ p_run.pc # "first_pass") => c_xml' = c_xml]_vars

\* two documents with related names were written from an index of two or
\* more elements
C26_Witness ==
    /\ c_kind = "xml"
    /\ p_run.pc = "returned"
    /\ Len(p_in) >= 2
    /\ Cardinality(c_related) >= 2
    /\ \E r \in c_related : r.from_same_authors # <<>> \/ r.from_same_publication # <<>>

\* C28: in the XML exporter every name in a related list of an emitted
\* document is the non-empty standard name of a GENESET element of the
\* corpus; an element without a standard name produces no document and is
\* in no related list.
C28_RelatedNamesAreEntities ==
    c_kind = "xml" =>
        \A r \in c_related :
            /\ r.name # EmptyName
            /\ \A gs \in Range(r.from_same_publication) \cup Range(r.from_same_authors) :
                   /\ gs # EmptyName
                   /\ \E k \in 1..Len(p_in) : p_in[k].name = gs

\* the gene sets under the THRESHOLD_EXCLUDED archive policy, by name
ThresholdExcludedNames ==
    LET db == TheValue(c_db)
    IN  {db.gene_set[i] :
            i \in {j \in DOMAIN db.gene_set : "THRESHOLD_EXCLUDED" \in db.archive_policy[j]}}

\* C29: in the SQLite exporter no document is written for an entity under
\* the THRESHOLD_EXCLUDED archive policy, and its name is in no
\* from_same_publication or from_same_authors list of an emitted document.
C29_ThresholdExcludedAbsent ==
    c_kind = "sqlite" =>
        \A r \in c_related :
            /\ r.name \notin ThresholdExcludedNames
            /\ Range(r.from_same_publication) \cap ThresholdExcludedNames = {}
            /\ Range(r.from_same_authors) \cap ThresholdExcludedNames = {}

-----------------------------------------------------------------------------
(* The whole document built by export_gene_set_to_yaml.                    *)
(* A document is a function from its top-level keys to values; a value is  *)
(* [type, v] with type "null", "str", "int", "list" or "map".  Strings     *)
(* that the exporter splits or strips are sequences of characters; codes,  *)
(* names and URLs that it only copies, joins or looks up are sequences of  *)
(* one token.                                                              *)

Null == [type |-> "null", v |-> <<>>]
Str(s) == [type |-> "str", v |-> s]
Num(n) == [type |-> "int", v |-> n]
List(l) == [type |-> "list", v |-> l]
Map(m) == [type |-> "map", v |-> m]

\* "s or None" for a string s
StrOrNone(s) == IF s = <<>> THEN Null ELSE Str(s)

\* a nullable column as a value
OfOptional(opt) == IF opt = None THEN Null ELSE Str(TheValue(opt))

\* [p.strip() for p in s.split(sep) if p.strip()]
RECURSIVE StrippedNonEmpty(_)
StrippedNonEmpty(pieces) ==
    IF pieces = <<>> THEN <<>>
    ELSE (IF Strip(Head(pieces)) = <<>> THEN <<>> ELSE <<Strip(Head(pieces))>>)
            \o StrippedNonEmpty(Tail(pieces))

\* COLLECTION_FULL_NAMES
COLLECTION_FULL_NAMES ==
    (<<"C1">> :> <<"Positional gene sets">>) @@
    (<<"C2">> :> <<"Curated gene sets">>) @@
    (<<"C3">> :> <<"Regulatory target gene sets">>) @@
    (<<"C4">> :> <<"Computational gene sets">>) @@
    (<<"C5">> :> <<"Ontology gene sets">>) @@
    (<<"C6">> :> <<"Oncogenic signature gene sets">>) @@
    (<<"C7">> :> <<"Immunologic signature gene sets">>) @@
    (<<"C8">> :> <<"Cell type signature gene sets">>) @@
    (<<"H">> :> <<"Hallmark gene sets">>) @@
    (<<"M1">> :> <<"Positional gene sets (mouse)">>) @@
    (<<"M2">> :> <<"Curated gene sets (mouse)">>) @@
    (<<"M3">> :> <<"Regulatory target gene sets (mouse)">>) @@
    (<<"M5">> :> <<"Ontology gene sets (mouse)">>) @@
    (<<"M8">> :> <<"Cell type signature gene sets (mouse)">>) @@
    (<<"MH">> :> <<"Hallmark gene sets (mouse)">>)

\* SUB_CATEGORY_FULL_NAMES
SUB_CATEGORY_FULL_NAMES ==
    (<<"CGP">> :> <<"CGP">>) @@
    (<<"CP">> :> <<"CP">>) @@
    (<<"CP:BIOCARTA">> :> <<"BioCarta">>) @@
    (<<"CP:KEGG">> :> <<"KEGG">>) @@
    (<<"CP:PID">> :> <<"PID">>) @@
    (<<"CP:REACTOME">> :> <<"Reactome">>) @@
    (<<"CP:WIKIPATHWAYS">> :> <<"WikiPathways">>) @@
    (<<"MIR:MIR_LEGACY">> :> <<"MIR_Legacy">>) @@
    (<<"MIR:MIRDB">> :> <<"MIRDB">>) @@
    (<<"TFT:GTRD">> :> <<"GTRD">>) @@
    (<<"TFT:TFT_LEGACY">> :> <<"TFT_Legacy">>) @@
    (<<"CGN">> :> <<"CGN">>) @@
    (<<"CM">> :> <<"CM">>) @@
    (<<"GO:BP">> :> <<"GO_BP">>) @@
    (<<"GO:CC">> :> <<"GO_CC">>) @@
    (<<"GO:MF">> :> <<"GO_MF">>) @@
    (<<"HPO">> :> <<"HPO">>) @@
    (<<"VAX">> :> <<"VAX">>)

\* PLATFORM_IDS
PLATFORM_IDS ==
    (<<"Human_Ensembl_Gene_ID">> :> 4) @@ (<<"Mouse_Ensembl_Gene_ID">> :> 5) @@
    (<<"Human_NCBI_Gene_ID">> :> 7) @@ (<<"Mouse_NCBI_Gene_ID">> :> 8) @@
    (<<"HUMAN_GENE_SYMBOL">> :> 10) @@ (<<"MOUSE_GENE_SYMBOL">> :> 11) @@
    (<<"AFFY_HG_U133">> :> 13) @@ (<<"AFFY_HG_U95">> :> 14) @@
    (<<"AFFY_HuGene">> :> 15) @@ (<<"AFFY_MG_U74">> :> 16) @@
    (<<"AFFY_Mouse430">> :> 17) @@ (<<"AFFY_MoGene">> :> 18) @@
    (<<"AFFY_Mu11K">> :> 19) @@ (<<"AFFY_Rat230">> :> 20) @@
    (<<"AFFY_RG_U34">> :> 21) @@ (<<"AFFY_RaGene">> :> 22) @@
    (<<"Human_AGILENT_Array">> :> 23) @@ (<<"Mouse_AGILENT_Array">> :> 24) @@
    (<<"Human_ILLUMINA_Array">> :> 26) @@ (<<"Mouse_ILLUMINA_Array">> :> 27) @@
    (<<"Operon_V1.1">> :> 28) @@ (<<"HUMAN_SEQ_ACCESSION">> :> 29) @@
    (<<"MOUSE_SEQ_ACCESSION">> :> 30) @@ (<<"Human_RefSeq">> :> 32) @@
    (<<"Mouse_RefSeq">> :> 33) @@ (<<"Human_Image_Clone_ID">> :> 35) @@
    (<<"Mouse_Image_Clone_ID">> :> 36) @@ (<<"Human_UniProt_ID">> :> 38) @@
    (<<"Mouse_UniProt_ID">> :> 39) @@ (<<"UniGene_ID">> :> 41) @@
    (<<"Human_Gene_Namespace">> :> 42) @@ (<<"Mouse_Gene_Namespace">> :> 43) @@
    (<<"AFFY_HTA_2.0">> :> 44)

\* the 'collection' mapping of the XML exporter, None values removed
XmlCollection(collection_code, sub_category) ==
    LET collection_name == IF sub_category # <<>>
                           THEN collection_code \o <<":">> \o sub_category
                           ELSE collection_code
        collection_full_name ==
            IF sub_category # <<>>
            THEN Some(DictGet(SUB_CATEGORY_FULL_NAMES, sub_category, sub_category))
            ELSE IF collection_code \in DOMAIN COLLECTION_FULL_NAMES
            THEN Some(COLLECTION_FULL_NAMES[collection_code])
            ELSE None
    IN  IF collection_full_name = None
        THEN [name |-> collection_name]
        ELSE [name |-> collection_name, full_name |-> TheValue(collection_full_name)]

\* item.split(':', 1) of an item with a colon: the text before and after
\* the first colon
SplitAtFirstColon(item) ==
    LET colon == CHOOSE k \in 1..Len(item) :
                     item[k] = ":" /\ \A h \in 1..(k - 1) : item[h] # ":"
    IN  <<SubSeq(item, 1, colon - 1), SubSeq(item, colon + 1, Len(item))>>

\* the loop of parse_datasets over the pieces of a dataset string; the
\* function of the XML exporter has the "elif item" branch, the one inside
\* DataCache._preload_hallmarks has not
RECURSIVE DatasetsOfItems(_, _)
DatasetsOfItems(items, has_elif_item) ==
    IF items = <<>> THEN <<>>
    ELSE LET item == Strip(Head(items))
         IN  (IF ":" \in Range(item)
              THEN <<[dataset_id |-> Strip(SplitAtFirstColon(item)[1]),
                      description |-> Strip(SplitAtFirstColon(item)[2])]>>
              ELSE IF has_elif_item /\ item # <<>>
              THEN <<[dataset_id |-> item, description |-> <<>>]>>
              ELSE <<>>)
             \o DatasetsOfItems(Tail(items), has_elif_item)

\* parse_datasets of src/export_genesets_xml.py
parse_datasets(dataset_str) ==
    IF dataset_str = <<>> THEN <<>>
    ELSE DatasetsOfItems(Split(dataset_str, ";"), TRUE)

\* parse_datasets inside DataCache._preload_hallmarks; the column may be NULL
preload_parse_datasets(dataset_opt) ==
    IF dataset_opt = None \/ dataset_opt = Some(<<>>) THEN <<>>
    ELSE DatasetsOfItems(Split(TheValue(dataset_opt), ";"), FALSE)

\* the references appended for the parsed datasets of one kind
RECURSIVE HallmarkReferences(_, _)
HallmarkReferences(type, datasets) ==
    IF datasets = <<>> THEN <<>>
    ELSE <<[type |-> type, id |-> Head(datasets).dataset_id,
            description |-> Head(datasets).description]>>
         \o HallmarkReferences(type, Tail(datasets))

\* the clean-up comprehension over a whole document: a key is kept when it
\* is always kept or "v is not None and v != [] and v != {}"
CleanUpDocument(data) ==
    LET IsEmpty(v) == \/ v.type = "null"
                      \/ v.type = "list" /\ v.v = <<>>
                      \/ v.type = "map" /\ DOMAIN v.v = {}
    IN  [k \in {x \in DOMAIN data : x \in keys_to_always_keep \/ ~IsEmpty(data[x])}
            |-> data[k]]

\* the keys a document has only when the condition of their "if" holds
Optionally(present, key, value) == IF present THEN key :> value ELSE <<>>

\* the related_gene_sets mapping of either exporter
RelatedMap(pub_related, author_related) ==
    Optionally(pub_related # <<>>, "from_same_publication", pub_related)
        @@ Optionally(author_related # <<>>, "from_same_authors", author_related)

\* the document export_gene_set_to_yaml (XML) dumps for an element e, the
\* two related lists of the cache and the version history of the entity
XmlDocument(e, pub_related, author_related, version_history) ==
    LET related == RelatedMap(pub_related, author_related)
        datasets ==
            (IF e.GEOID # <<>> THEN <<[type |-> "GEO", id |-> e.GEOID]>> ELSE <<>>)
                \o HallmarkReferences("Hallmark Refinement",
                                      parse_datasets(e.REFINEMENT_DATASETS))
                \o HallmarkReferences("Hallmark Validation",
                                      parse_datasets(e.VALIDATION_DATASETS))
        external_links ==
            (IF e.EXTERNAL_DETAILS_URL # <<>> THEN <<e.EXTERNAL_DETAILS_URL>> ELSE <<>>)
                \o (IF e.GENESET_LISTING_URL # <<>> THEN <<e.GENESET_LISTING_URL>>
                    ELSE <<>>)
        pub_info ==
            Optionally(e.PMID # <<>>, "pmid", e.PMID)
                @@ Optionally(e.AUTHORS # <<>>, "authors",
                              StrippedNonEmpty(Split(e.AUTHORS, ",")))
        members == parse_members_mapping(e.MEMBERS_MAPPING)
        gene_set_data ==
            [standard_name |-> Str(e.STANDARD_NAME),
             systematic_name |-> StrOrNone(e.SYSTEMATIC_NAME),
             brief_description |-> StrOrNone(e.DESCRIPTION_BRIEF),
             full_description |-> StrOrNone(e.DESCRIPTION_FULL),
             collection |-> Map(XmlCollection(e.CATEGORY_CODE, e.SUB_CATEGORY_CODE)),
             source_species |-> StrOrNone(e.ORGANISM),
             contributed_by |-> StrOrNone(e.CONTRIBUTOR),
             contributor_organization |-> StrOrNone(e.CONTRIBUTOR_ORG),
             exact_source |-> StrOrNone(e.EXACT_SOURCE),
             license |-> Str(<<"CC-BY-4.0">>),
             tags |-> List(IF e.TAGS # <<>> THEN Split(e.TAGS, ",") ELSE <<>>)]
            @@ Optionally(e.CHIP # <<>>, "source_platform",
                    Map(IF e.CHIP \in DOMAIN PLATFORM_IDS
                        THEN [id |-> PLATFORM_IDS[e.CHIP], name |-> e.CHIP]
                        ELSE [name |-> e.CHIP]))
            @@ Optionally(external_links # <<>>, "external_links", List(external_links))
            @@ Optionally(e.PMID # <<>> \/ e.AUTHORS # <<>>, "source_publication",
                    Map(pub_info))
            @@ Optionally(DOMAIN related # {}, "related_gene_sets", Map(related))
            @@ Optionally(e.FILTERED_BY_SIMILARITY # <<>>, "filtered_by_similarity",
                    List(StrippedNonEmpty(Split(e.FILTERED_BY_SIMILARITY, ","))))
            @@ Optionally(datasets # <<>>, "dataset_references", List(datasets))
            @@ Optionally(e.FOUNDER_NAMES # <<>>, "hallmark_info",
                    Map([founder_gene_sets |->
                            StrippedNonEmpty(Split(e.FOUNDER_NAMES, ","))]))
            @@ Optionally(version_history # None, "version_history",
                    List(TheValue(version_history)))
            @@ [members |-> List(members),
                num_members |-> Num(NumMembers(members)),
                num_genes_mapped |-> Num(MappedCount(members))]
    IN  CleanUpDocument(gene_set_data)

\* truthiness of a nullable text column and of a nullable integer column
Truthy(opt) == opt # None /\ TheValue(opt) # <<>>
TruthyId(opt) == opt # None /\ TheValue(opt) # 0

\* dict.get(key) on a preloaded table of nullable values, for a nullable
\* key: None when the key is None or missing
GetOrNone(table, key_opt) ==
    IF key_opt # None /\ TheValue(key_opt) \in DOMAIN table
    THEN table[TheValue(key_opt)]
    ELSE None

\* DataCache._preload_external_links, then get_external_links(name)
RECURSIVE ExternalLinksOf(_, _)
ExternalLinksOf(external_term, name) ==
    IF external_term = <<>> THEN <<>>
    ELSE (IF Head(external_term).term = name /\ Truthy(Head(external_term).external_name)
          THEN <<TheValue(Head(external_term).external_name)>> ELSE <<>>)
         \o ExternalLinksOf(Tail(external_term), name)

\* the entry DataCache._preload_hallmarks makes for a hallmark row
HallmarkEntry(row) ==
    [founder_gene_sets |-> IF Truthy(row.founder_names)
                           THEN Split(TheValue(row.founder_names), ",") ELSE <<>>,
     validation_datasets |-> preload_parse_datasets(row.validation_datasets),
     refinement_datasets |-> preload_parse_datasets(row.refinement_datasets)]

\* the document export_gene_set_to_yaml (SQLite) dumps for the row r of
\* gene_set joined with gene_set_details and the preloaded tables of db
SqliteDocument(r, db) ==
    LET related == RelatedMap(db.pub_related, db.author_related)
        external_links ==
            (IF Truthy(r.external_details_URL)
             THEN <<TheValue(r.external_details_URL)>> ELSE <<>>)
                \o ExternalLinksOf(db.external_term, r.standard_name)
        datasets ==
            (IF Truthy(r.GEO_id) THEN <<[type |-> "GEO", id |-> TheValue(r.GEO_id)]>>
             ELSE <<>>)
                \o (IF db.hallmark = None THEN <<>>
                    ELSE HallmarkReferences("Hallmark Refinement",
                            HallmarkEntry(TheValue(db.hallmark)).refinement_datasets)
                         \o HallmarkReferences("Hallmark Validation",
                            HallmarkEntry(TheValue(db.hallmark)).validation_datasets))
        pub_info ==
            IF r.publication_id # None /\ TheValue(r.publication_id) \in DOMAIN db.publication
            THEN Some(db.publication[TheValue(r.publication_id)])
            ELSE None
        founders == IF db.hallmark = None THEN <<>>
                    ELSE HallmarkEntry(TheValue(db.hallmark)).founder_gene_sets
        members == get_gene_members(db.members)
    IN  [standard_name |-> Str(r.standard_name),
         systematic_name |-> OfOptional(r.systematic_name),
         brief_description |-> OfOptional(r.description_brief),
         full_description |-> OfOptional(r.description_full),
         collection |->
            Map([name |-> r.collection_name,
                 full_name |-> IF Truthy(r.collection_name)
                               THEN GetOrNone(db.collection, r.collection_name)
                               ELSE None]),
         source_species |-> IF Truthy(r.source_species_code)
                            THEN OfOptional(GetOrNone(db.species, r.source_species_code))
                            ELSE Null,
         contributed_by |-> OfOptional(r.contributor),
         contributor_organization |-> OfOptional(r.contrib_organization),
         exact_source |-> OfOptional(r.exact_source),
         license |-> OfOptional(r.license_code),
         tags |-> List(IF Truthy(r.tags) THEN Split(TheValue(r.tags), ",") ELSE <<>>)]
        @@ Optionally(TruthyId(r.primary_namespace_id), "source_platform",
                Map([id |-> TheValue(r.primary_namespace_id),
                     name |-> GetOrNone(db.namespace, r.primary_namespace_id)]))
        @@ Optionally(external_links # <<>>, "external_links", List(external_links))
        @@ Optionally(pub_info # None, "source_publication", Map(TheValue(pub_info)))
        @@ Optionally(DOMAIN related # {}, "related_gene_sets", Map(related))
        @@ Optionally(db.filtered # <<>>, "filtered_by_similarity", List(db.filtered))
        @@ Optionally(datasets # <<>>, "dataset_references", List(datasets))
        @@ Optionally(founders # <<>>, "hallmark_info",
                Map([founder_gene_sets |-> founders]))
        @@ Optionally(db.version_history # None, "version_history",
                List(TheValue(db.version_history)))
        @@ [members |-> List(members),
            num_members |-> Num(NumMembers(members)),
            num_genes_mapped |-> Num(MappedCount(members))]

-----------------------------------------------------------------------------
(* The document specification: one entity, exported by either exporter.    *)

MaxDatasetLen == 4

\* an element with every attribute set, no related gene set, no history
BaseXmlInput ==
    [e |-> [STANDARD_NAME |-> <<"A">>,
            SYSTEMATIC_NAME |-> <<"M1">>,
            DESCRIPTION_BRIEF |-> <<"brief">>,
            DESCRIPTION_FULL |-> <<"full">>,
            CATEGORY_CODE |-> <<"C2">>,
            SUB_CATEGORY_CODE |-> <<"CGP">>,
            ORGANISM |-> <<"Homo sapiens">>,
            CONTRIBUTOR |-> <<"contributor">>,
            CONTRIBUTOR_ORG |-> <<"organization">>,
            EXACT_SOURCE |-> <<"source">>,
            TAGS |-> <<"t">>,
            CHIP |-> <<"HUMAN_GENE_SYMBOL">>,
            EXTERNAL_DETAILS_URL |-> <<"http://u">>,
            GENESET_LISTING_URL |-> <<"http://v">>,
            PMID |-> <<"1">>,
            AUTHORS |-> <<"a">>,
            FILTERED_BY_SIMILARITY |-> <<>>,
            GEOID |-> <<>>,
            REFINEMENT_DATASETS |-> <<>>,
            VALIDATION_DATASETS |-> <<>>,
            FOUNDER_NAMES |-> <<>>,
            MEMBERS_MAPPING |-> <<"1", ",", "T", ",", "7">>],
     pub_related |-> <<>>,
     author_related |-> <<>>,
     version_history |-> None]

\* the elements exported: the base element with one group of attributes
\* changed (texts, collection, links, hallmark datasets, the others)
XmlInputs ==
    LET Texts == {<<>>, <<"text">>}
        NameLists == {<<>>, <<",">>, <<"B">>, <<"B", ",", " ", "C">>}
        RelatedLists == {<<>>, <<<<"B">>>>}
        Urls == {<<>>, <<"http://u">>, <<"http://v">>}
    IN  {[BaseXmlInput EXCEPT !.e.SYSTEMATIC_NAME = sys,
                              !.e.DESCRIPTION_FULL = full,
                              !.e.DESCRIPTION_BRIEF = rest,
                              !.e.ORGANISM = rest,
                              !.e.CONTRIBUTOR = rest,
                              !.e.CONTRIBUTOR_ORG = rest,
                              !.e.EXACT_SOURCE = rest,
                              !.e.TAGS = tags,
                              !.e.FILTERED_BY_SIMILARITY = filtered,
                              !.e.MEMBERS_MAPPING = members,
                              !.version_history = history] :
            sys \in Texts, full \in Texts, rest \in Texts,
            tags \in {<<>>, <<"t">>, <<"t", ",", "u">>},
            filtered \in NameLists, members \in {<<>>, <<"1", ",", "T", ",", "7">>},
            history \in {None, Some(<<>>), Some(<<[version |-> <<"v1">>]>>)}}
        \cup
        {[BaseXmlInput EXCEPT !.e.CATEGORY_CODE = code, !.e.SUB_CATEGORY_CODE = sub] :
            code \in {<<>>, <<"C2">>, <<"H">>, <<"C9">>},
            sub \in {<<>>, <<"CGP">>, <<"CP:KEGG">>, <<"ZZ">>}}
        \cup
        {[BaseXmlInput EXCEPT !.e.EXTERNAL_DETAILS_URL = details,
                              !.e.GENESET_LISTING_URL = listing] :
            details \in Urls, listing \in Urls}
        \cup
        {[BaseXmlInput EXCEPT !.e.REFINEMENT_DATASETS = refinement,
                              !.e.VALIDATION_DATASETS = validation,
                              !.e.GEOID = geo] :
            refinement \in SeqsUpTo({"a", ":", ";", " "}, MaxDatasetLen),
            validation \in {<<>>, <<"a", ":", "a">>, <<"a">>},
            geo \in {<<>>, <<"GSE1">>}}
        \cup
        {[BaseXmlInput EXCEPT !.e.CHIP = chip, !.e.PMID = pmid, !.e.AUTHORS = authors,
                              !.e.FOUNDER_NAMES = founders,
                              !.pub_related = pub_related,
                              !.author_related = author_related] :
            chip \in {<<>>, <<"HUMAN_GENE_SYMBOL">>, <<"Other_Chip">>},
            pmid \in {<<>>, <<"1">>}, authors \in NameLists, founders \in NameLists,
            pub_related \in RelatedLists, author_related \in RelatedLists}

\* a gene_set row with a gene_set_details row in which every column is set,
\* and the preloaded tables with the rows it refers to
BaseSqliteInput ==
    [r |-> [standard_name |-> <<"A">>,
            collection_name |-> Some(<<"C2:CGP">>),
            tags |-> Some(<<"t">>),
            license_code |-> Some(<<"CC-BY-4.0">>),
            systematic_name |-> Some(<<"M1">>),
            description_brief |-> Some(<<"brief">>),
            description_full |-> Some(<<"full">>),
            exact_source |-> Some(<<"source">>),
            external_details_URL |-> Some(<<"http://u">>),
            contributor |-> Some(<<"contributor">>),
            contrib_organization |-> Some(<<"organization">>),
            source_species_code |-> Some(<<"HS">>),
            publication_id |-> Some(1),
            GEO_id |-> None,
            primary_namespace_id |-> Some(10)],
     db |-> [collection |-> (<<"C2:CGP">> :> Some(<<"CGP">>)) @@ (<<"H">> :> None),
           species |-> (<<"HS">> :> Some(<<"Homo sapiens">>)),
           namespace |-> (10 :> Some(<<"HUMAN_GENE_SYMBOL">>)),
           publication |-> (1 :> [pmid |-> Some(<<"1">>), title |-> Some(<<"title">>),
                                  doi |-> None, url |-> None, authors |-> <<<<"a">>>>]),
           external_term |-> <<>>,
           filtered |-> <<>>,
           hallmark |-> None,
           pub_related |-> <<>>,
           author_related |-> <<>>,
           version_history |-> None,
           members |-> [rows |-> <<[source_id |-> <<"1">>, symbol |-> Some(<<"T">>),
                                    NCBI_id |-> Some(<<"7">>)]>>,
                        query_fails |-> FALSE]]]

\* the rows exported: the base row with one group of columns or tables
\* changed (texts, collection, links, hallmark row, the others)
SqliteInputs ==
    LET Nullable(S) == {None} \cup {Some(v) : v \in S}
        RelatedLists == {<<>>, <<<<"B">>>>}
        ExternalTerms ==
            SeqsUpTo([term : {<<"A">>, <<"B">>},
                      external_name : {None, Some(<<"http://u">>), Some(<<"http://w">>)}],
                     MaxRows)
    IN  {[BaseSqliteInput EXCEPT !.r.systematic_name = sys,
                                 !.r.description_full = full,
                                 !.r.description_brief = rest,
                                 !.r.contributor = rest,
                                 !.r.contrib_organization = rest,
                                 !.r.exact_source = rest,
                                 !.r.license_code = rest,
                                 !.r.source_species_code = species,
                                 !.r.tags = tags,
                                 !.db.filtered = filtered,
                                 !.db.members = members,
                                 !.db.version_history = history] :
            sys \in Nullable({<<"text">>}), full \in Nullable({<<"text">>}),
            rest \in Nullable({<<"text">>}), species \in Nullable({<<"HS">>, <<"ZZ">>}),
            tags \in Nullable({<<>>, <<"t">>, <<"t", ",", "u">>}),
            filtered \in {<<>>, <<<<"B">>>>},
            members \in {[rows |-> <<>>, query_fails |-> FALSE],
                         BaseSqliteInput.db.members},
            history \in {None, Some(<<>>), Some(<<[version |-> <<"v1">>]>>)}}
        \cup
        {[BaseSqliteInput EXCEPT !.r.collection_name = name] :
            name \in Nullable({<<>>, <<"C2:CGP">>, <<"H">>, <<"C9">>})}
        \cup
        {[BaseSqliteInput EXCEPT !.r.external_details_URL = details,
                                 !.db.external_term = terms] :
            details \in Nullable({<<>>, <<"http://u">>, <<"http://v">>}),
            terms \in ExternalTerms}
        \cup
        {[BaseSqliteInput EXCEPT
                !.r.GEO_id = geo,
                !.db.hallmark = Some([founder_names |-> founders,
                                      validation_datasets |-> validation,
                                      refinement_datasets |-> refinement])] :
            geo \in Nullable({<<"GSE1">>}),
            founders \in {None, Some(<<"B", ",", " ", "C">>)},
            validation \in {None, Some(<<"a", ":", "a">>), Some(<<"a">>)},
            refinement \in Nullable(SeqsUpTo({"a", ":", ";", " "}, MaxDatasetLen))}
        \cup
        {[BaseSqliteInput EXCEPT !.r.primary_namespace_id = namespace,
                                 !.r.publication_id = publication,
                                 !.db.pub_related = pub_related,
                                 !.db.author_related = author_related] :
            namespace \in Nullable({0, 10, 99}), publication \in Nullable({1, 2}),
            pub_related \in RelatedLists, author_related \in RelatedLists}

InitDoc ==
    /\ \/ m_kind = "xml" /\ m_input \in XmlInputs
       \/ m_kind = "sqlite" /\ m_input \in SqliteInputs
    /\ m_doc = {}
    /\ IdleCache
    /\ IdleSanitizer
    /\ IdleRun

\* export_gene_set_to_yaml (XML): the whole document, cleaned up and dumped
ExportXmlDocument ==
    /\ m_kind = "xml"
    /\ m_doc = {}
    /\ m_doc' = {XmlDocument(m_input.e, m_input.pub_related, m_input.author_related,
                             m_input.version_history)}
    /\ UNCHANGED <<m_kind, m_input, c_kind, c_xml, c_db, c_sql, c_related, s_raw, s_runs, p_in, p_run, p_fs, p_main>>

\* export_gene_set_to_yaml (SQLite): the whole document, dumped
ExportSqliteDocument ==
    /\ m_kind = "sqlite"
    /\ m_doc = {}
    /\ m_doc' = {SqliteDocument(m_input.r, m_input.db)}
    /\ UNCHANGED <<m_kind, m_input, c_kind, c_xml, c_db, c_sql, c_related, s_raw, s_runs, p_in, p_run, p_fs, p_main>>

NextDoc == ExportXmlDocument \/ ExportSqliteDocument

SpecDoc == InitDoc /\ [][NextDoc]_vars

\* the document of the current export
Document == TheValue(m_doc)

\* C21: in every document of either exporter full_description and tags are
\* present, and no other top-level key has a null, empty-list or
\* empty-mapping value.
C21_NoEmptyTopLevelValue ==
    m_doc # {} =>
        /\ {"full_description", "tags"} \subseteq DOMAIN Document
        /\ \A k \in DOMAIN Document \ {"full_description", "tags"} :
               /\ Document[k].type # "null"
               /\ ~(Document[k].type = "list" /\ Document[k].v = <<>>)
               /\ ~(Document[k].type = "map" /\ DOMAIN Document[k].v = {})

\* the refinement and validation dataset strings of the exported entity
\* ('' when the attribute, the hallmark row or the column is missing)
DatasetString(column) ==
    IF m_kind = "xml"
    THEN (IF column = "refinement" THEN m_input.e.REFINEMENT_DATASETS
          ELSE m_input.e.VALIDATION_DATASETS)
    ELSE IF m_input.db.hallmark = None THEN <<>>
    ELSE LET row == TheValue(m_input.db.hallmark)
             text == IF column = "refinement" THEN row.refinement_datasets
                     ELSE row.validation_datasets
         IN  IF text = None THEN <<>> ELSE TheValue(text)

\* the dataset references of one type in the document, in document order
ReferencesOfType(type) ==
    IF "dataset_references" \in DOMAIN Document
    THEN SelectSeq(Document["dataset_references"].v, LAMBDA d : d.type = type)
    ELSE <<>>

\* the references are, one for one and in order, the non-empty entries
EntriesMatch(references, entries) ==
    /\ Len(references) = Len(entries)
    /\ \A k \in 1..Len(entries) :
           IF ":" \in Range(entries[k])
           THEN /\ references[k].id = Strip(SplitAtFirstColon(entries[k])[1])
                /\ references[k].description = Strip(SplitAtFirstColon(entries[k])[2])
           ELSE /\ references[k].id = entries[k]
                /\ references[k].description = <<>>

\* C22: in both exporters each non-empty ';'-separated entry of the
\* refinement and of the validation dataset string yields exactly one
\* dataset reference, in order: split at the first colon into trimmed id and
\* description, or the entry as id with an empty description when it has no
\* colon.
C22_OneReferencePerEntry ==
    m_doc # {} =>
        /\ EntriesMatch(ReferencesOfType("Hallmark Refinement"),
                        StrippedNonEmpty(Split(DatasetString("refinement"), ";")))
        /\ EntriesMatch(ReferencesOfType("Hallmark Validation"),
                        StrippedNonEmpty(Split(DatasetString("validation"), ";")))

\* C23: in the XML exporter collection.full_name is the display name of the
\* static table for the collection code (the sub-category code when there
\* is one), and the raw code itself when the table has no entry.
C23_FullNameOrRawCode ==
    (m_kind = "xml" /\ m_doc # {}) =>
        LET code == m_input.e.CATEGORY_CODE
            sub == m_input.e.SUB_CATEGORY_CODE
            collection == Document["collection"].v
        IN  /\ "full_name" \in DOMAIN collection
            /\ collection.full_name =
                  IF sub = <<>> THEN DictGet(COLLECTION_FULL_NAMES, code, code)
                  ELSE DictGet(SUB_CATEGORY_FULL_NAMES, sub, sub)

\* the external_links list of the document ([] when the key is absent)
ExternalLinks ==
    IF "external_links" \in DOMAIN Document THEN Document["external_links"].v ELSE <<>>

\* the details URL of the exported entity ('' when it has none)
DetailsUrl ==
    IF m_kind = "xml" THEN m_input.e.EXTERNAL_DETAILS_URL
    ELSE IF m_input.r.external_details_URL = None THEN <<>>
    ELSE TheValue(m_input.r.external_details_URL)

\* the URLs of the second origin of the exported entity
SecondOrigin ==
    IF m_kind = "xml" THEN {m_input.e.GENESET_LISTING_URL} \ {<<>>}
    ELSE {TheValue(t.external_name) :
            t \in {x \in Range(m_input.db.external_term) :
                      x.term = m_input.r.standard_name /\ Truthy(x.external_name)}}

\* C24: the external_links list of every document holds the URLs of the
\* details field and of the second origin, the details URL first, and no URL
\* more than once.
C24_LinksDeduplicated ==
    m_doc # {} =>
        /\ Range(ExternalLinks) = ({DetailsUrl} \ {<<>>}) \cup SecondOrigin
        /\ DetailsUrl # <<>> => ExternalLinks[1] = DetailsUrl
        /\ \A j, k \in 1..Len(ExternalLinks) :
               ExternalLinks[j] = ExternalLinks[k] => j = k

====
